---- MODULE Spec2Model ----
(***************************************************************************)
(* VegaFusion task graph (vegafusion-core/src/task_graph/graph.rs).        *)
(*                                                                         *)
(* A chart is a list of definitions; the scope tree is made from the whole *)
(* chart, the task list holds the definitions evaluated by the graph.      *)
(* TaskGraph::new builds the topologically sorted node vector and its two  *)
(* fingerprints, update_value swaps the payload of a Value node and        *)
(* refreshes the state fingerprints.                                       *)
(*                                                                         *)
(* Conventions.  Node indices, edge endpoints and output slots are 0-based *)
(* as in the source; TLA+ sequences are 1-based, so node i is nodes[i+1].  *)
(* Option<T> is a sequence: <<>> is None, <<v>> is Some(v).                *)
(* Result<T> is a record [ok, err, val].                                   *)
(* The hasher is taken to be collision-free: a fingerprint is the stream   *)
(* of integers written to the hasher, and finish() returns that stream.    *)
(***************************************************************************)
EXTENDS Integers, Sequences, FiniteSets, TLC

\* ---------------------------------------------------------------- bounds
MaxTasks == 3
MaxScalar == 2

\* ------------------------------------------------------------- utilities
Ok(v) == [ok |-> TRUE, err |-> "", val |-> v]
Err(kind) == [ok |-> FALSE, err |-> kind, val |-> <<>>]

Range(s) == {s[i] : i \in DOMAIN s}

Reverse(s) == [i \in 1..Len(s) |-> s[Len(s) + 1 - i]]

RECURSIVE Concat(_)
Concat(ss) == IF ss = <<>> THEN <<>> ELSE Head(ss) \o Concat(Tail(ss))

\* Position (0-based) of the first element equal to x, as Option<usize>.
Position(s, x) ==
  IF \E i \in DOMAIN s : s[i] = x
  THEN <<(CHOOSE i \in DOMAIN s : s[i] = x /\ \A j \in 1..(i - 1) : s[j] # x) - 1>>
  ELSE <<>>

\* All enumerations, without repetition, of the finite set S.
Enumerations(S) ==
  {s \in [1..Cardinality(S) -> S] : \A i, j \in 1..Cardinality(S) : s[i] = s[j] => i = j}

\* First failing result of a sequence of results, or Ok of the concatenated values.
Collect(rs) ==
  IF \E i \in DOMAIN rs : ~rs[i].ok
  THEN LET i == CHOOSE i \in DOMAIN rs : ~rs[i].ok /\ \A j \in 1..(i - 1) : rs[j].ok
       IN  Err(rs[i].err)
  ELSE Ok(Concat([i \in DOMAIN rs |-> rs[i].val]))

\* ------------------------------------------------------------ data model
Variable(ns, name) == [namespace |-> ns, name |-> name]
new_signal(id) == Variable("Signal", id)
new_data(id) == Variable("Data", id)

InputVariable(var, propagate) == [var |-> var, propagate |-> propagate]

NodeValueIndex(node_index, output_index) ==
  [node_index |-> node_index, output_index |-> output_index]

ScopedVariable(task) == <<task.variable, task.scope>>

\* TaskValue: a scalar or a table.  The table NoIpc has no IPC encoding.
Scalar(v) == [tag |-> "Scalar", v |-> v]
Table(v) == [tag |-> "Table", v |-> v]
NoIpc == Table(0)
TaskValues == {Scalar(v) : v \in 1..MaxScalar} \cup {Table(1), NoIpc}

\* ProtoTaskValue::try_from(&TaskValue): the value serialised to bytes under
\* the tag of its kind; serialisation of a table can fail.
ProtoTaskValue_try_from(value) ==
  IF value = NoIpc THEN Err("ArrowError")
  ELSE Ok([data |-> value.tag,
           bytes |-> IF value.tag = "Scalar" THEN <<1, value.v>> ELSE <<2, value.v, 0>>])

NoProto == [data |-> "None", bytes |-> <<>>]

new_value(variable, scope, value) ==
  [variable |-> variable, scope |-> scope,
   task_kind |-> [kind |-> "Value", value |-> ProtoTaskValue_try_from(value).val,
                  input_vars |-> <<>>, output_vars |-> <<>>]]

\* The three data task kinds; input_vars and output_vars stand for what the
\* task's url and transform pipeline read and publish.
new_data_task(kind, variable, scope, ins, outs) ==
  [variable |-> variable, scope |-> scope,
   task_kind |-> [kind |-> kind, value |-> NoProto,
                  input_vars |-> ins, output_vars |-> outs]]

input_vars(task) ==
  IF task.task_kind.kind = "Value" THEN <<>> ELSE task.task_kind.input_vars

output_vars(task) ==
  IF task.task_kind.kind = "Value" THEN <<>> ELSE task.task_kind.output_vars

\* ---------------------------------------------------------------- hashing
\* What each Hash implementation writes to the hasher.
NsCode(ns) == CASE ns = "Signal" -> 0 [] ns = "Scale" -> 1 [] ns = "Data" -> 2

NameCode(name) ==
  CASE name = "x" -> 1 [] name = "e" -> 2 [] name = "a" -> 3
    [] name = "b" -> 4 [] name = "c" -> 5 [] name = "d" -> 6 [] name = "s" -> 7
    [] name = "a_url" -> 8

KindCode(kind) ==
  CASE kind = "Value" -> 1 [] kind = "DataUrl" -> 2
    [] kind = "DataValues" -> 3 [] kind = "DataSource" -> 4

\* Variable::hash: the namespace, then the name.
hash_variable(var) == <<NsCode(var.namespace), NameCode(var.name)>>

\* Vec<u32>::hash: the length, then the elements.
hash_scope(scope) == <<Len(scope)>> \o scope

\* str::hash of the kind tag of a Value task.
hash_tag(data) == IF data = "Scalar" THEN <<115, 255>> ELSE <<100, 255>>

\* u64::hash of a fingerprint.
hash_u64(fingerprint) == <<Len(fingerprint)>> \o fingerprint

\* prost encoding of a Task: variable, scope and the task kind with all of
\* its fields, the value payload of a Value task included.
encode(task) ==
  LET k == task.task_kind
      var(v) == <<NsCode(v.namespace), NameCode(v.name)>>
      inp(i) == var(i.var) \o <<IF i.propagate THEN 1 ELSE 0>>
  IN  var(task.variable) \o <<Len(task.scope)>> \o task.scope \o <<KindCode(k.kind)>>
        \o (IF k.kind = "Value"
            THEN <<IF k.value.data = "Scalar" THEN 1 ELSE 2, Len(k.value.bytes)>> \o k.value.bytes
            ELSE <<Len(k.input_vars)>>
                   \o Concat([i \in DOMAIN k.input_vars |-> inp(k.input_vars[i])])
                   \o <<Len(k.output_vars)>>
                   \o Concat([i \in DOMAIN k.output_vars |-> var(k.output_vars[i])]))

\* Task::hash: the encoded bytes, hashed as a Vec<u8>.
hash_task(task) == <<Len(encode(task))>> \o encode(task)

\* The fingerprint every TaskNode is constructed with.
ZeroFingerprint == <<>>

\* ------------------------------------------------------------- the charts
Root == <<>>
Group == <<0>>

\* Definitions a chart is drawn from.  Two Value signals named x, one at the
\* root and one shadowing it inside the group mark; three definitions of the
\* root dataset a (a well-formed chart holds one of them); datasets b and c
\* inside the group; a root dataset d reading a and its output signal e.
ValueX == new_value(new_signal("x"), Root, Scalar(1))
ValueXGroup == new_value(new_signal("x"), Group, Scalar(1))
DataA == new_data_task("DataUrl", new_data("a"), Root,
           <<InputVariable(new_signal("x"), TRUE), InputVariable(new_signal("e"), TRUE)>>,
           <<new_signal("e")>>)
DataA2 == new_data_task("DataValues", new_data("a"), Root, <<>>, <<>>)
DataA3 == new_data_task("DataSource", new_data("a"), Root,
            <<InputVariable(new_data("d"), TRUE)>>,
            <<new_signal("e")>>)
DataB == new_data_task("DataValues", new_data("b"), Group,
           <<InputVariable(new_signal("x"), FALSE), InputVariable(new_signal("x"), FALSE)>>,
           <<>>)
DataC == new_data_task("DataSource", new_data("c"), Group,
           <<InputVariable(new_data("a"), TRUE), InputVariable(new_signal("x"), TRUE)>>,
           <<>>)
DataD == new_data_task("DataSource", new_data("d"), Root,
           <<InputVariable(new_signal("e"), TRUE), InputVariable(new_data("a"), TRUE)>>,
           <<>>)

Definitions == {ValueX, ValueXGroup, DataA, DataA2, DataA3, DataB, DataC, DataD}

\* The place of a definition in a chart.  TaskGraph::new depends on the order
\* of its tasks in two ways: through the petgraph node indexes, which only
\* steer the topological sort (all of whose results are taken), and through
\* which of several tasks with the same scoped variable comes last.  Charts
\* therefore list their definitions in one order, except that definitions of
\* the same variable come in every order.
Before(t, u) ==
  \/ ScopedVariable(t) = ScopedVariable(u)
  \/ NsCode(t.variable.namespace) < NsCode(u.variable.namespace)
  \/ /\ t.variable.namespace = u.variable.namespace
     /\ \/ NameCode(t.variable.name) < NameCode(u.variable.name)
        \/ t.variable.name = u.variable.name /\ Len(t.scope) < Len(u.scope)

Charts ==
  {s \in UNION {Enumerations(S) :
                  S \in {T \in SUBSET Definitions : Cardinality(T) \in 1..MaxTasks}} :
     \A i, j \in DOMAIN s : i < j => Before(s[i], s[j])}

\* Definitions for the scope tree alone: signal x at the root, in the group
\* mark and in the group mark inside it, a root dataset named x as well, the
\* root dataset a that publishes signal e, and a scale in the inner group.
Inner == <<0, 0>>
ValueXInner == new_value(new_signal("x"), Inner, Scalar(1))
DataX == new_data_task("DataValues", new_data("x"), Root, <<>>, <<>>)
ScaleS == [variable |-> Variable("Scale", "s"), scope |-> Inner,
           task_kind |-> [kind |-> "Scale", value |-> NoProto,
                          input_vars |-> <<>>, output_vars |-> <<>>]]

ScopeDefinitions == {ValueX, ValueXGroup, ValueXInner, DataX, DataA, ScaleS}

ScopeCharts ==
  {s \in UNION {Enumerations(S) :
                  S \in {T \in SUBSET ScopeDefinitions : Cardinality(T) \in 1..MaxTasks}} :
     \A i, j \in DOMAIN s : i < j => Before(s[i], s[j])}

\* The chart without its k-th definition (k = 0: the whole chart).
Without(chart, k) == [i \in 1..(Len(chart) - (IF k = 0 THEN 0 ELSE 1)) |->
                        IF k = 0 \/ i < k THEN chart[i] ELSE chart[i + 1]]

\* -------------------------------------------------------------- TaskScope
Prefixes(scope) == {SubSeq(scope, 1, n) : n \in 0..Len(scope)}

\* Every name entered in one set, whatever its namespace.
MakeTaskScope_one_namespace(chart) ==
  LET paths == {Root} \cup UNION {Prefixes(chart[i].scope) : i \in DOMAIN chart}
      names(p) == {chart[i].variable.name : i \in {j \in DOMAIN chart : chart[j].scope = p}}
  IN  [p \in paths |->
         [signals |-> names(p), data |-> names(p), scales |-> names(p),
          output_var_defs |-> <<>>]]

\* MakeTaskScopeVisitor: each definition is entered at its scope, in chart
\* order; a dataset also enters its output signals in output_var_defs (a map,
\* so a later dataset publishing the same signal replaces the earlier one).
\* The tree is a function from the scope paths it has to the level there.
MakeTaskScope(chart) ==
  LET paths == {Root} \cup UNION {Prefixes(chart[i].scope) : i \in DOMAIN chart}
      at(p) == {i \in DOMAIN chart : chart[i].scope = p}
      named(p, ns) == {chart[i].variable.name :
                         i \in {j \in at(p) : chart[j].variable.namespace = ns}}
      pub(p, sig) == {i \in at(p) : /\ chart[i].variable.namespace = "Data"
                                    /\ sig \in Range(output_vars(chart[i]))}
      sigs(p) == UNION {Range(output_vars(chart[i])) :
                          i \in {j \in at(p) : chart[j].variable.namespace = "Data"}}
      last(I) == CHOOSE i \in I : \A j \in I : j <= i
  IN  [p \in paths |->
         [signals |-> named(p, "Signal"),
          data |-> named(p, "Data"),
          scales |-> named(p, "Scale"),
          output_var_defs |-> [sig \in sigs(p) |-> chart[last(pub(p, sig))].variable]]]

\* TaskScope::resolve_scope: from the usage scope outwards, the first level
\* that defines the name in the requested namespace, or that publishes it as
\* an output signal of a dataset, wins.
Resolved(var, scope, output_var) == [var |-> var, scope |-> scope, output_var |-> output_var]

RECURSIVE resolve_level(_, _, _, _)
resolve_level(task_scope, variable, usage_scope, level) ==
  LET curr_scope == SubSeq(usage_scope, 1, level)
  IN  IF curr_scope \notin DOMAIN task_scope THEN Err("InternalError")
      ELSE LET l == task_scope[curr_scope]
               found_it == CASE variable.namespace = "Signal" -> variable.name \in l.signals
                             [] variable.namespace = "Data" -> variable.name \in l.data
                             [] variable.namespace = "Scale" -> variable.name \in l.scales
           IN  IF found_it THEN Ok(Resolved(variable, curr_scope, <<>>))
               ELSE IF variable \in DOMAIN l.output_var_defs
               THEN Ok(Resolved(l.output_var_defs[variable], curr_scope, <<variable>>))
               ELSE IF level = 0 THEN Err("SpecificationError")
               ELSE resolve_level(task_scope, variable, usage_scope, level - 1)

resolve_scope(task_scope, variable, usage_scope) ==
  resolve_level(task_scope, variable, usage_scope, Len(usage_scope))

\* --------------------------------------------------------- TaskGraph::new
IncomingEdge(source, output) == [source |-> source, output |-> output]
OutgoingEdge(target, propagate) == [target |-> target, propagate |-> propagate]
PetgraphEdge(source, target, output_var) ==
  [source |-> source, target |-> target, output_var |-> output_var]

\* tasks_map after the node loop: a later task with the same scoped variable
\* replaces the earlier entry, whose graph node stays behind.
tasks_map(tasks) ==
  LET last(sv) == CHOOSE i \in DOMAIN tasks :
                    /\ ScopedVariable(tasks[i]) = sv
                    /\ \A j \in DOMAIN tasks : ScopedVariable(tasks[j]) = sv => j <= i
  IN  [sv \in {ScopedVariable(tasks[i]) : i \in DOMAIN tasks} |->
         [node_index |-> last(sv) - 1, task |-> tasks[last(sv)]]]

\* graph.add_node in task order: the weight of petgraph node i is weights[i+1].
node_weights(tasks) == [i \in DOMAIN tasks |-> ScopedVariable(tasks[i])]

\* An edge loop that inserts the edge of a task to itself as well.
resolve_edge_with_self(tm, task_scope, sv, k) ==
  LET node_index == tm[sv].node_index
      task == tm[sv].task
      input_var == input_vars(task)[k]
      resolved == resolve_scope(task_scope, input_var.var, task.scope)
  IN  IF ~resolved.ok THEN resolved
      ELSE LET input_scoped_var == <<resolved.val.var, resolved.val.scope>>
           IN  IF input_scoped_var \notin DOMAIN tm THEN Err("InternalError")
               ELSE Ok(<<PetgraphEdge(tm[input_scoped_var].node_index, node_index,
                                      resolved.val.output_var)>>)

\* One turn of the inner edge loop: the k-th input of the entry at key sv.
resolve_edge(tm, task_scope, sv, k) ==
  LET node_index == tm[sv].node_index
      task == tm[sv].task
      input_var == input_vars(task)[k]
      resolved == resolve_scope(task_scope, input_var.var, task.scope)
  IN  IF ~resolved.ok THEN resolved
      ELSE LET input_scoped_var == <<resolved.val.var, resolved.val.scope>>
           IN  IF input_scoped_var \notin DOMAIN tm THEN Err("InternalError")
               ELSE LET input_node_index == tm[input_scoped_var].node_index
                    IN  IF input_node_index # node_index
                        THEN Ok(<<PetgraphEdge(input_node_index, node_index,
                                               resolved.val.output_var)>>)
                        ELSE Ok(<<>>)

\* The edge loop over tasks_map.values(), visited in the order iter of its
\* keys: the edges in insertion order, or the first error met.
add_edges(tm, task_scope, iter) ==
  Collect(Concat([n \in DOMAIN iter |->
            [k \in DOMAIN input_vars(tm[iter[n]].task) |->
               resolve_edge(tm, task_scope, iter[n], k)]]))

\* A sort that returns the nodes in some order, sorted or not.
toposort_unchecked(n, edges) == Enumerations(0..(n - 1))

\* petgraph::algo::toposort: the orders of the nodes 0..n-1 it can return.
\* Which one it returns follows from the edge insertion order, that is from
\* the iteration order of a HashMap; every order that puts each edge's
\* source before its target is allowed here.  No such order: a cycle.
toposort(n, edges) ==
  {t \in Enumerations(0..(n - 1)) :
     \A i \in DOMAIN edges :
        Position(t, edges[i].source)[1] < Position(t, edges[i].target)[1]}

\* edges_directed: petgraph walks a node's edge list from the newest edge.
edges_directed(edges, node_index, direction) ==
  Reverse(SelectSeq(edges, LAMBDA e : IF direction = "Outgoing"
                                      THEN e.source = node_index
                                      ELSE e.target = node_index))

\* The incoming list in the order petgraph yields the edges.
incoming_edges_edge_order(tm, weights, task_scope, in_edges, toposorted, scoped_var, task) ==
  LET edge_of(e) ==
        IF e.output_var # <<>>
        THEN LET output_index == Position(output_vars(tm[weights[e.source + 1]].task),
                                          e.output_var[1])
             IN  IF output_index = <<>> THEN Err("InternalError")
                 ELSE Ok(<<IncomingEdge(Position(toposorted, e.source)[1], output_index)>>)
        ELSE Ok(<<IncomingEdge(Position(toposorted, e.source)[1], <<>>)>>)
  IN  Collect([k \in DOMAIN in_edges |-> edge_of(in_edges[k])])

\* An incoming list that takes slot 0 for an output variable the parent does
\* not publish.
incoming_edges_first_slot(tm, weights, task_scope, in_edges, toposorted, scoped_var, task) ==
  LET sorted(ni) == Position(toposorted, ni)[1]
      key(e) == <<weights[e.source + 1][1], e.output_var>>
      keep(K) == CHOOSE i \in DOMAIN in_edges :
                   /\ key(in_edges[i]) = K
                   /\ \A j \in DOMAIN in_edges : key(in_edges[j]) = K => j <= i
      incoming_vars == [K \in {key(in_edges[i]) : i \in DOMAIN in_edges} |->
                          in_edges[keep(K)].source]
      edge_of(var) ==
        LET resolved == resolve_scope(task_scope, var.var, scoped_var[2]).val
            K == <<resolved.var, resolved.output_var>>
        IN  IF K \notin DOMAIN incoming_vars THEN Ok(<<>>)
            ELSE LET ni == incoming_vars[K]
                 IN  IF resolved.output_var # <<>>
                     THEN LET input_task == tm[weights[ni + 1]].task
                              output_index == Position(output_vars(input_task),
                                                       resolved.output_var[1])
                          IN  IF output_index = <<>> THEN Ok(<<IncomingEdge(sorted(ni), <<0>>)>>)
                              ELSE Ok(<<IncomingEdge(sorted(ni), output_index)>>)
                     ELSE Ok(<<IncomingEdge(sorted(ni), <<>>)>>)
  IN  Collect([k \in DOMAIN input_vars(task) |-> edge_of(input_vars(task)[k])])

\* The incoming list of the node with the given scoped variable and task
\* (lines 130-186): one edge for each input variable, in the order of
\* input_vars(), that is found among the sources of the petgraph edges.
incoming_edges(tm, weights, task_scope, in_edges, toposorted, scoped_var, task) ==
  LET sorted(ni) == Position(toposorted, ni)[1]
      key(e) == <<weights[e.source + 1][1], e.output_var>>
      \* collect() into a HashMap: the last edge with a key stays
      keep(K) == CHOOSE i \in DOMAIN in_edges :
                   /\ key(in_edges[i]) = K
                   /\ \A j \in DOMAIN in_edges : key(in_edges[j]) = K => j <= i
      incoming_vars == [K \in {key(in_edges[i]) : i \in DOMAIN in_edges} |->
                          in_edges[keep(K)].source]
      edge_of(var) ==
        LET resolved == resolve_scope(task_scope, var.var, scoped_var[2]).val
            K == <<resolved.var, resolved.output_var>>
        IN  IF K \notin DOMAIN incoming_vars THEN Ok(<<>>)
            ELSE LET ni == incoming_vars[K]
                 IN  IF resolved.output_var # <<>>
                     THEN LET input_task == tm[weights[ni + 1]].task
                              output_index == Position(output_vars(input_task),
                                                       resolved.output_var[1])
                          IN  IF output_index = <<>> THEN Err("InternalError")
                              ELSE Ok(<<IncomingEdge(sorted(ni), output_index)>>)
                     ELSE Ok(<<IncomingEdge(sorted(ni), <<>>)>>)
  IN  Collect([k \in DOMAIN input_vars(task) |-> edge_of(input_vars(task)[k])])

\* A TaskNode whose outgoing list names each target once.
task_node_distinct_targets(tm, weights, task_scope, edges, toposorted, node_index) ==
  LET scoped_var == weights[node_index + 1]
      task == tm[scoped_var].task
      out_edges == edges_directed(edges, node_index, "Outgoing")
      tagged == [i \in DOMAIN out_edges |-> <<i, out_edges[i].target>>]
      first == SelectSeq(tagged, LAMBDA p :
                 \A j \in 1..(p[1] - 1) : out_edges[j].target # p[2])
      outgoing == [i \in DOMAIN first |->
                     OutgoingEdge(Position(toposorted, first[i][2])[1], TRUE)]
      in_edges == edges_directed(edges, node_index, "Incoming")
      incoming == incoming_edges(tm, weights, task_scope, in_edges, toposorted,
                                 scoped_var, task)
  IN  IF ~incoming.ok THEN incoming
      ELSE Ok(<<[task |-> task, incoming |-> incoming.val, outgoing |-> outgoing,
                 id_fingerprint |-> ZeroFingerprint,
                 state_fingerprint |-> ZeroFingerprint]>>)

\* The TaskNode made for petgraph node node_index (lines 109-195).
task_node(tm, weights, task_scope, edges, toposorted, node_index) ==
  LET scoped_var == weights[node_index + 1]
      task == tm[scoped_var].task
      out_edges == edges_directed(edges, node_index, "Outgoing")
      outgoing == [i \in DOMAIN out_edges |->
                     OutgoingEdge(Position(toposorted, out_edges[i].target)[1], TRUE)]
      in_edges == edges_directed(edges, node_index, "Incoming")
      incoming == incoming_edges(tm, weights, task_scope, in_edges, toposorted,
                                 scoped_var, task)
  IN  IF ~incoming.ok THEN incoming
      ELSE Ok(<<[task |-> task, incoming |-> incoming.val, outgoing |-> outgoing,
                 id_fingerprint |-> ZeroFingerprint,
                 state_fingerprint |-> ZeroFingerprint]>>)

task_nodes(tm, weights, task_scope, edges, toposorted) ==
  Collect([i \in DOMAIN toposorted |->
             task_node(tm, weights, task_scope, edges, toposorted, toposorted[i])])

\* ------------------------------------------------------------- accessors
\* parent_indices / child_indices of a graph (a sequence of TaskNodes).
parent_indices(graph, node_index) ==
  IF node_index + 1 \notin DOMAIN graph THEN Err("InternalError")
  ELSE LET inc == graph[node_index + 1].incoming
       IN  Ok([k \in DOMAIN inc |-> inc[k].source])

child_indices(graph, node_index) ==
  IF node_index + 1 \notin DOMAIN graph THEN Err("InternalError")
  ELSE LET out == graph[node_index + 1].outgoing
       IN  Ok([k \in DOMAIN out |-> out[k].target])

\* parent_nodes / child_nodes: the nodes at the other end of the edges; the
\* unwrap of an edge end outside the graph panics.
parent_nodes(graph, node_index) ==
  IF node_index + 1 \notin DOMAIN graph THEN Err("InternalError")
  ELSE LET inc == graph[node_index + 1].incoming
       IN  IF \E k \in DOMAIN inc : inc[k].source + 1 \notin DOMAIN graph
           THEN Err("panic")
           ELSE Ok([k \in DOMAIN inc |-> graph[inc[k].source + 1]])

child_nodes(graph, node_index) ==
  IF node_index + 1 \notin DOMAIN graph THEN Err("InternalError")
  ELSE LET out == graph[node_index + 1].outgoing
       IN  IF \E k \in DOMAIN out : out[k].target + 1 \notin DOMAIN graph
           THEN Err("panic")
           ELSE Ok([k \in DOMAIN out |-> graph[out[k].target + 1]])

\* The node indexed without the bounds check.
TaskGraph_node_unchecked(graph, node_index) ==
  IF node_index + 1 \notin DOMAIN graph THEN Err("panic")
  ELSE Ok(graph[node_index + 1])

\* TaskGraph::node
TaskGraph_node(graph, node_index) ==
  IF node_index + 1 \notin DOMAIN graph THEN Err("InternalError")
  ELSE Ok(graph[node_index + 1])

\* The accessors by name.
Accessors == {"parent_indices", "child_indices", "parent_nodes", "child_nodes", "node"}

accessor(op, graph, node_index) ==
  CASE op = "parent_indices" -> parent_indices(graph, node_index)
    [] op = "child_indices" -> child_indices(graph, node_index)
    [] op = "parent_nodes" -> parent_nodes(graph, node_index)
    [] op = "child_nodes" -> child_nodes(graph, node_index)
    [] op = "node" -> TaskGraph_node(graph, node_index)

\* ----------------------------------------------------------- fingerprints
\* The parents left out of the hash.
parents_hash_skipped(fingerprints, parents) == Ok(<<>>)

\* The indexes of the parents hashed in place of their fingerprints.
parents_hash_indexes(fingerprints, parents) ==
  Ok(Concat([k \in DOMAIN parents |-> <<parents[k]>>]))

\* The hasher input made of the fingerprints of the parents, read from the
\* vector computed so far; an index beyond it panics.
parents_hash(fingerprints, parents) ==
  IF \E k \in DOMAIN parents : parents[k] + 1 \notin DOMAIN fingerprints
  THEN Err("panic")
  ELSE Ok(Concat([k \in DOMAIN parents |-> hash_u64(fingerprints[parents[k] + 1])]))

\* The loop of init_identity_fingerprints over the first n nodes.
RECURSIVE id_fingerprints(_, _)
id_fingerprints(graph, n) ==
  IF n = 0 THEN Ok(<<>>)
  ELSE LET done == id_fingerprints(graph, n - 1)
           task == graph[n].task
       IN  IF ~done.ok THEN done
           ELSE IF task.task_kind.kind = "Value"
           THEN Ok(Append(done.val, hash_variable(task.variable) \o hash_scope(task.scope)
                                      \o hash_tag(task.task_kind.value.data)))
           ELSE LET ph == parents_hash(done.val, parent_indices(graph, n - 1).val)
                IN  IF ~ph.ok THEN ph
                    ELSE Ok(Append(done.val, ph.val \o hash_task(task)))

init_identity_fingerprints(graph) ==
  LET fps == id_fingerprints(graph, Len(graph))
  IN  IF ~fps.ok THEN fps
      ELSE Ok([i \in DOMAIN graph |-> [graph[i] EXCEPT !.id_fingerprint = fps.val[i]]])

\* The loop reading the fingerprints stored in the parents, not the new ones.
state_fingerprints_stored(graph, n) ==
  Ok([i \in 1..n |->
        IF graph[i].task.task_kind.kind = "Value" THEN hash_task(graph[i].task)
        ELSE Concat([k \in DOMAIN graph[i].incoming |->
                       hash_u64(graph[graph[i].incoming[k].source + 1].state_fingerprint)])
               \o hash_u64(graph[i].id_fingerprint)])

\* The loop of update_state_fingerprints over the first n nodes.
RECURSIVE state_fingerprints(_, _)
state_fingerprints(graph, n) ==
  IF n = 0 THEN Ok(<<>>)
  ELSE LET done == state_fingerprints(graph, n - 1)
           task == graph[n].task
       IN  IF ~done.ok THEN done
           ELSE IF task.task_kind.kind = "Value"
           THEN Ok(Append(done.val, hash_task(task)))
           ELSE LET ph == parents_hash(done.val, parent_indices(graph, n - 1).val)
                IN  IF ~ph.ok THEN ph
                    ELSE Ok(Append(done.val, ph.val \o hash_u64(graph[n].id_fingerprint)))

\* Every node reported as updated.
update_state_fingerprints_all(graph) ==
  LET fps == state_fingerprints(graph, Len(graph))
  IN  IF ~fps.ok THEN [res |-> fps, graph |-> graph]
      ELSE [res |-> Ok([i \in DOMAIN graph |-> i - 1]),
            graph |-> [i \in DOMAIN graph |->
                         [graph[i] EXCEPT !.state_fingerprint = fps.val[i]]]]

\* The differing nodes reported, their new fingerprints not stored.
update_state_fingerprints_unapplied(graph) ==
  LET fps == state_fingerprints(graph, Len(graph))
      idx == [i \in DOMAIN graph |-> i - 1]
  IN  IF ~fps.ok THEN [res |-> fps, graph |-> graph]
      ELSE [res |-> Ok(SelectSeq(idx, LAMBDA i :
                         graph[i + 1].state_fingerprint # fps.val[i + 1])),
            graph |-> graph]

\* update_state_fingerprints: the graph with the fingerprints applied and the
\* indices, ascending, of the nodes whose fingerprint differed.
update_state_fingerprints(graph) ==
  LET fps == state_fingerprints(graph, Len(graph))
      differs(i) == graph[i].state_fingerprint # fps.val[i]
      idx == [i \in DOMAIN graph |-> i - 1]
  IN  IF ~fps.ok THEN [res |-> fps, graph |-> graph]
      ELSE [res |-> Ok(SelectSeq(idx, LAMBDA i : differs(i + 1))),
            graph |-> [i \in DOMAIN graph |->
                         IF differs(i) THEN [graph[i] EXCEPT !.state_fingerprint = fps.val[i]]
                         ELSE graph[i]]]

\* TaskGraph::new from the topological sort on (lines 100-203).
sorted_graph(tm, weights, task_scope, edges, toposorted) ==
  LET built == task_nodes(tm, weights, task_scope, edges, toposorted)
      with_id == init_identity_fingerprints(built.val)
      with_state == update_state_fingerprints(with_id.val)
  IN  IF ~built.ok THEN built
      ELSE IF ~with_id.ok THEN with_id
      ELSE IF ~with_state.res.ok THEN with_state.res
      ELSE Ok(with_state.graph)

\* The failed sort reported as an error of the specification.
TaskGraph_new_cycle_specification(tasks, task_scope) ==
  LET tm == tasks_map(tasks)
      weights == node_weights(tasks)
      from(iter) ==
        LET edges == add_edges(tm, task_scope, iter)
            sorts == toposort(Len(tasks), edges.val)
        IN  IF ~edges.ok THEN {edges}
            ELSE IF sorts = {} THEN {Err("SpecificationError")}
            ELSE {sorted_graph(tm, weights, task_scope, edges.val, t) : t \in sorts}
  IN  UNION {from(iter) : iter \in Enumerations(DOMAIN tm)}

\* TaskGraph::new: every result it can have on a task list and a scope tree,
\* over the iteration orders of tasks_map and the results of the sort.
TaskGraph_new(tasks, task_scope) ==
  LET tm == tasks_map(tasks)
      weights == node_weights(tasks)
      from(iter) ==
        LET edges == add_edges(tm, task_scope, iter)
            sorts == toposort(Len(tasks), edges.val)
        IN  IF ~edges.ok THEN {edges}
            ELSE IF sorts = {} THEN {Err("InternalError")}
            ELSE {sorted_graph(tm, weights, task_scope, edges.val, t) : t \in sorts}
  IN  UNION {from(iter) : iter \in Enumerations(DOMAIN tm)}

\* -------------------------------------------------------------- update_value
\* The new task given the root scope.
value_task_root_scope(node, proto) ==
  [variable |-> node.task.variable,
   scope |-> Root,
   task_kind |-> [kind |-> "Value", value |-> proto,
                  input_vars |-> <<>>, output_vars |-> <<>>]]

\* The task update_value puts in the node (lines 323-327).
value_task(node, proto) ==
  [variable |-> node.task.variable,
   scope |-> node.task.scope,
   task_kind |-> [kind |-> "Value", value |-> proto,
                  input_vars |-> <<>>, output_vars |-> <<>>]]

\* The indexes returned: each updated node, then each of its output slots.
node_value_indexes(graph, updated) ==
  Concat([j \in DOMAIN updated |->
            <<NodeValueIndex(updated[j], <<>>)>>
              \o [k \in DOMAIN output_vars(graph[updated[j] + 1].task) |->
                    NodeValueIndex(updated[j], <<k - 1>>)]])

\* The task swapped before the node is found not to be a Value.
update_value_late_check(graph, node_index, value) ==
  IF node_index + 1 \notin DOMAIN graph
  THEN [res |-> Err("InternalError"), graph |-> graph]
  ELSE LET node == graph[node_index + 1]
           proto == ProtoTaskValue_try_from(value)
           swapped == [graph EXCEPT ![node_index + 1].task = value_task(node, proto.val)]
           upd == update_state_fingerprints(swapped)
       IN  IF ~proto.ok THEN [res |-> proto, graph |-> graph]
           ELSE IF node.task.task_kind.kind # "Value"
           THEN [res |-> Err("InternalError"), graph |-> swapped]
           ELSE IF ~upd.res.ok THEN [res |-> upd.res, graph |-> upd.graph]
           ELSE [res |-> Ok(node_value_indexes(upd.graph, upd.res.val)),
                 graph |-> upd.graph]

\* TaskGraph::update_value: the result and the graph it leaves.
update_value(graph, node_index, value) ==
  IF node_index + 1 \notin DOMAIN graph
  THEN [res |-> Err("InternalError"), graph |-> graph]
  ELSE LET node == graph[node_index + 1]
           proto == ProtoTaskValue_try_from(value)
           swapped == [graph EXCEPT ![node_index + 1].task = value_task(node, proto.val)]
           upd == update_state_fingerprints(swapped)
       IN  IF node.task.task_kind.kind # "Value"
           THEN [res |-> Err("InternalError"), graph |-> graph]
           ELSE IF ~proto.ok THEN [res |-> proto, graph |-> graph]
           ELSE IF ~upd.res.ok THEN [res |-> upd.res, graph |-> upd.graph]
           ELSE [res |-> Ok(node_value_indexes(upd.graph, upd.res.val)),
                 graph |-> upd.graph]

\* ----------------------------------------------------------------- planning
\* A chart specification: its definitions in walk order, each one a stub or
\* not; the scoped variables of the datasets whose transforms the server
\* cannot evaluate; the variables its marks read, each with the scope of
\* the mark.
ChartSpec(defs, unsupported, marks) ==
  [defs |-> defs, unsupported |-> unsupported, marks |-> marks]
Definition(task, stub) == [task |-> task, stub |-> stub]
MarkRead(var, scope) == [var |-> var, scope |-> scope]

\* ChartSpec::to_tasks (MakeTasksVisitor) and ChartSpec::to_task_scope
\* (MakeTaskScopeVisitor): one task, one entry of the tree, per definition.
to_tasks(spec) == [i \in DOMAIN spec.defs |-> spec.defs[i].task]
to_task_scope(spec) == MakeTaskScope(to_tasks(spec))

\* DefinitionVarsChartVisitor: every scoped variable defined, stubs included.
definition_vars(spec) == {ScopedVariable(spec.defs[i].task) : i \in DOMAIN spec.defs}

\* UpdateVarsChartVisitor: the variables the spec computes: every definition
\* that is not an empty stub, and the output signals of its datasets.
update_vars(spec) ==
  LET live == {i \in DOMAIN spec.defs : ~spec.defs[i].stub}
  IN  {ScopedVariable(spec.defs[i].task) : i \in live}
        \cup UNION {{<<sig, spec.defs[i].task.scope>> :
                       sig \in Range(output_vars(spec.defs[i].task))} : i \in live}

\* The insertion of one variable read at a scope: its name with the scope it
\* resolves to, or the error of the resolution.
resolve_input(task_scope, var, scope) ==
  LET resolved == resolve_scope(task_scope, var, scope)
  IN  IF resolved.ok THEN Ok(<<<<var, resolved.val.scope>>>>) ELSE resolved

\* process_mark_from as visit_non_group_mark and visit_group_mark see it: they
\* drop its Result, so a dataset that does not resolve is left out.
process_mark_from(task_scope, var, scope) ==
  LET res == resolve_input(task_scope, var, scope)
  IN  IF res.ok THEN res ELSE Ok(<<>>)

\* The marks: a dataset is read through from.data or from.facet.data, in
\* process_mark_from; a signal is read in an encoding.
visit_marks(task_scope, marks) ==
  [k \in DOMAIN marks |->
     IF marks[k].var.namespace = "Data"
       THEN process_mark_from(task_scope, marks[k].var, marks[k].scope)
       ELSE resolve_input(task_scope, marks[k].var, marks[k].scope)]

\* visit_data: the inputs of a dataset that is not a stub.
visit_data(task_scope, data) ==
  IF data.stub THEN <<>>
  ELSE [k \in DOMAIN input_vars(data.task) |->
          resolve_input(task_scope, input_vars(data.task)[k].var, data.task.scope)]

\* The set the visitor holds when the walk ends, or the error that ended it.
visitor_input_vars(walked) == IF walked.ok THEN Ok(Range(walked.val)) ELSE walked

\* InputVarsChartVisitor: the variables the datasets and the marks of the spec
\* read, each inserted under its own name with the scope it resolves to.  A
\* failed resolution in a definition or in an encoding of a mark ends the
\* walk; one in process_mark_from does not.
spec_input_vars(spec, task_scope) ==
  visitor_input_vars(
    Collect(Concat([i \in DOMAIN spec.defs |-> visit_data(task_scope, spec.defs[i])])
              \o visit_marks(task_scope, CHOOSE m \in Enumerations(spec.marks) : TRUE)))

\* The definitions that move to the server: the datasets with supported
\* transforms all of whose dataset inputs, read directly or through an output
\* signal, are datasets that move; signals are sent by the client.
RECURSIVE server_defs(_, _, _)
server_defs(spec, task_scope, moved) ==
  LET reachable(i, k) ==
        LET task == spec.defs[i].task
            resolved == resolve_scope(task_scope, input_vars(task)[k].var, task.scope).val
        IN  resolved.var.namespace = "Data" =>
              \E j \in moved \cup {i} :
                 ScopedVariable(spec.defs[j].task) = <<resolved.var, resolved.scope>>
      movable(i) ==
        LET task == spec.defs[i].task
        IN  /\ task.task_kind.kind # "Value"
            /\ ScopedVariable(task) \notin spec.unsupported
            /\ \A k \in DOMAIN input_vars(task) : reachable(i, k)
      next == {i \in DOMAIN spec.defs : movable(i)}
  IN  IF next = moved THEN moved ELSE server_defs(spec, task_scope, next)

\* Select the elements of a sequence at the indexes of a set, in order.
RECURSIVE SelectAt(_, _)
SelectAt(seq, indexes) ==
  IF seq = <<>> THEN <<>>
  ELSE SelectAt(SubSeq(seq, 1, Len(seq) - 1), indexes)
         \o (IF Len(seq) \in indexes THEN <<seq[Len(seq)]>> ELSE <<>>)

\* extract_server_data: the server spec, and the client spec in which each
\* definition that moved is replaced by a stub.
extract_server_data(spec, task_scope) ==
  LET moved == server_defs(spec, task_scope, {})
  IN  [server |-> ChartSpec(SelectAt(spec.defs, moved), {}, {}),
       client |-> [spec EXCEPT !.defs = [i \in DOMAIN spec.defs |->
                     IF i \in moved THEN Definition(spec.defs[i].task, TRUE)
                     ELSE spec.defs[i]]]]

\* CommPlan
CommPlan(server_to_client, client_to_server) ==
  [server_to_client |-> server_to_client, client_to_server |-> client_to_server]

\* stitch_specs: what the server reads but does not compute goes from the
\* client to the server, and the server spec gets a stub for it that carries
\* the value of the client's definition; what the client reads but does not
\* compute goes from the server to the client.
stitch_specs(task_scope, server_spec, client_spec) ==
  LET server_inputs == spec_input_vars(server_spec, task_scope)
      client_inputs == spec_input_vars(client_spec, task_scope)
      client_to_server == server_inputs.val \ update_vars(server_spec)
      server_to_client == client_inputs.val \ update_vars(client_spec)
      stubs == {i \in DOMAIN client_spec.defs :
                  ScopedVariable(client_spec.defs[i].task) \in client_to_server}
      stub(i) == Definition(client_spec.defs[i].task, TRUE)
      selected == SelectAt(client_spec.defs, stubs)
  IN  IF ~server_inputs.ok THEN server_inputs
      ELSE IF ~client_inputs.ok THEN client_inputs
      ELSE Ok([server |-> [server_spec EXCEPT !.defs =
                             [i \in DOMAIN selected |-> Definition(selected[i].task, TRUE)]
                               \o server_spec.defs],
               comm_plan |-> CommPlan(server_to_client, client_to_server)])

\* split_data_url_nodes: a dataset that fetches a url and transforms the
\* result becomes a pure fetch followed by a dataset derived from it.
split_data_url_nodes(spec) ==
  LET split(d) ==
        LET task == d.task
            raw == new_data(IF task.variable.name = "a" THEN "a_url" ELSE task.variable.name)
        IN  IF task.task_kind.kind = "DataUrl" /\ input_vars(task) # <<>>
            THEN <<Definition(new_data_task("DataUrl", raw, task.scope, <<>>, <<>>), FALSE),
                   Definition(new_data_task("DataSource", task.variable, task.scope,
                                <<InputVariable(raw, TRUE)>> \o input_vars(task),
                                output_vars(task)), FALSE)>>
            ELSE <<d>>
  IN  [spec EXCEPT !.defs = Concat([i \in DOMAIN spec.defs |-> split(spec.defs[i])])]

\* The loop over the output variables left out.
build_mapping_no_outputs(graph) ==
  [sv \in {ScopedVariable(graph[i].task) : i \in DOMAIN graph} |->
     NodeValueIndex((CHOOSE i \in DOMAIN graph :
                       /\ ScopedVariable(graph[i].task) = sv
                       /\ \A j \in DOMAIN graph :
                            ScopedVariable(graph[j].task) = sv => j <= i) - 1, <<>>)]

\* TaskGraph::build_mapping: in node order each node enters its variable and
\* then its output variables, a later entry replacing an earlier one.
build_mapping(graph) ==
  LET entries == Concat([i \in DOMAIN graph |->
                   <<[key |-> ScopedVariable(graph[i].task),
                      value |-> NodeValueIndex(i - 1, <<>>)]>>
                     \o [k \in DOMAIN output_vars(graph[i].task) |->
                           [key |-> <<output_vars(graph[i].task)[k], graph[i].task.scope>>,
                            value |-> NodeValueIndex(i - 1, <<k - 1>>)]]])
      last(sv) == CHOOSE n \in DOMAIN entries :
                    /\ entries[n].key = sv
                    /\ \A j \in DOMAIN entries : entries[j].key = sv => j <= n
  IN  [sv \in {entries[n].key : n \in DOMAIN entries} |-> entries[last(sv)].value]

\* ------------------------------------------------------------- the client
\* MsgReceiver: the fields the callbacks use.
MsgReceiver(spec, server_spec, comm_plan, task_graph_mapping, server_to_client_value_indices) ==
  [spec |-> spec, server_spec |-> server_spec, comm_plan |-> comm_plan,
   task_graph_mapping |-> task_graph_mapping,
   server_to_client_value_indices |-> server_to_client_value_indices]

NoReceiver == MsgReceiver(<<>>, <<>>, CommPlan({}, {}), <<>>, {})

\* TaskGraphValueRequest: the indices asked of the server.
Request(indices) == [indices |-> indices]

\* What a call on the client leaves: its result, the task list and scope
\* tree of the server spec, the task graph, the receiver, the request sent.
Rendered(res, tasks, task_scope, graph, receiver, sent) ==
  [res |-> res, tasks |-> tasks, task_scope |-> task_scope, graph |-> graph,
   receiver |-> receiver, sent |-> sent]

Panicked(at) == Rendered(Err(at), <<>>, MakeTaskScope(<<>>), <<>>, NoReceiver, <<>>)

\* MsgReceiver::new with register_callbacks, and the initial request of
\* render_vegafusion: each results it can have, the indices of the request
\* being listed in the iteration order of server_to_client.
MsgReceiver_new(spec, server_spec, comm_plan, tasks, task_scope, task_graph) ==
  LET task_graph_mapping == build_mapping(task_graph)
      server_to_client_value_indices ==
        {task_graph_mapping[sv] : sv \in comm_plan.server_to_client}
      receiver == MsgReceiver(spec, server_spec, comm_plan, task_graph_mapping,
                              server_to_client_value_indices)
  IN  IF comm_plan.server_to_client \subseteq DOMAIN task_graph_mapping
      THEN IF comm_plan.client_to_server \subseteq DOMAIN task_graph_mapping
           THEN IF \A sv \in comm_plan.client_to_server : sv[1].namespace # "Scale"
                THEN {Rendered(Ok(<<>>), tasks, task_scope, task_graph, receiver,
                               <<Request([k \in DOMAIN order |->
                                           task_graph_mapping[order[k]]])>>) :
                        order \in Enumerations(comm_plan.server_to_client)}
                ELSE {Panicked("Unsupported namespace")}
           ELSE {Panicked("client_to_server unwrap")}
      ELSE {Panicked("server_to_client unwrap")}

\* render_vegafusion: planning, the server task graph, the receiver and the
\* initial request; every expect and unwrap that fails is a panic.
render_vegafusion(spec) ==
  LET task_scope == to_task_scope(spec)
      readable == spec_input_vars(spec, task_scope)
      extracted == extract_server_data(spec, task_scope)
      stitched == stitch_specs(task_scope, extracted.server, extracted.client)
      server_spec == split_data_url_nodes(stitched.val.server)
      server_scope == to_task_scope(server_spec)
      tasks == to_tasks(server_spec)
      received(built) ==
        IF ~built.ok THEN {Panicked("TaskGraph::new")}
        ELSE MsgReceiver_new(extracted.client, server_spec, stitched.val.comm_plan,
                             tasks, server_scope, built.val)
  IN  IF ~readable.ok THEN {Panicked("Failed to extract_server_data")}
      ELSE IF ~stitched.ok THEN {Panicked("Failed to stitch_specs")}
      ELSE UNION {received(built) : built \in TaskGraph_new(tasks, server_scope)}

\* The filter of the callbacks: the updated indices the server sends back.
request_indices_unfiltered(updated_nodes, server_to_client) == updated_nodes

request_indices(updated_nodes, server_to_client) ==
  SelectSeq(updated_nodes, LAMBDA n : n \in server_to_client)

\* -------------------------------------------------------------- the runtime
\* TaskValue::try_from(&ProtoTaskValue): the value decoded from the bytes
\* stored under the tag of its kind.
TaskValue_try_from(proto) ==
  IF proto.data = "Scalar" /\ Len(proto.bytes) = 2 /\ proto.bytes[1] = 1
    THEN Ok(Scalar(proto.bytes[2]))
  ELSE IF proto.data = "Table" /\ Len(proto.bytes) = 3 /\ proto.bytes[1] = 2
    THEN Ok(Table(proto.bytes[2]))
  ELSE Err("InternalError")

\* What the evaluator of a data task computes from its task and the values
\* handed to it: the table, and the value of one of its output variables.
Computed(task, values) == [tag |-> "Table", v |-> <<hash_task(task), values>>]
Output(task, values, k) == [tag |-> "Scalar", v |-> <<hash_task(task), values, k>>]

\* The pair a task evaluates to: its value and its output values.
Evaluated(value, output_values) == [value |-> value, output_values |-> output_values]

\* eval of DataUrlTask, DataValuesTask and DataSourceTask when it succeeds.
data_task_eval(task, values) ==
  Ok(Evaluated(Computed(task, values),
               [k \in DOMAIN output_vars(task) |-> Output(task, values, k)]))

\* An eval of a Value task that passes on the first value handed to it.
Task_eval_passes_argument(task, values) ==
  IF task.task_kind.kind = "Value"
  THEN LET value == TaskValue_try_from(task.task_kind.value)
       IN  IF values # <<>> THEN Ok(Evaluated(values[1], <<>>))
           ELSE IF value.ok THEN Ok(Evaluated(value.val, <<>>)) ELSE value
  ELSE data_task_eval(task, values)

\* TaskCall::eval for Task
Task_eval(task, values) ==
  IF task.task_kind.kind = "Value"
  THEN LET value == TaskValue_try_from(task.task_kind.value)
       IN  IF value.ok THEN Ok(Evaluated(value.val, <<>>)) ELSE value
  ELSE data_task_eval(task, values)

\* The nodes a request for the given indices requires: the nodes of the
\* indices and every node they depend on.
RECURSIVE required_from(_, _)
required_from(graph, found) ==
  LET step == found \cup UNION {Range(parent_indices(graph, n).val) : n \in found}
  IN  IF step = found THEN found ELSE required_from(graph, step)

required(graph, indices) == required_from(graph, {i.node_index : i \in indices})

\* What a node hands over an edge: its value, or the output value of the
\* edge's slot.
edge_value(results, edge) ==
  LET produced == results[edge.source].val
  IN  IF edge.output = <<>> THEN produced.value
      ELSE produced.output_values[edge.output[1] + 1]

\* The arguments of a node's evaluator: one value per incoming edge, in the
\* order of incoming.
parent_values(graph, results, n) ==
  [k \in DOMAIN graph[n + 1].incoming |-> edge_value(results, graph[n + 1].incoming[k])]

\* A node that has produced nothing in the request so far.
NotYet == Err("none")

\* Every source of the node's incoming edges has produced a value.
parents_produced(graph, results, n) ==
  \A k \in DOMAIN graph[n + 1].incoming : results[graph[n + 1].incoming[k].source].ok

\* The cache: entries of a state fingerprint and the values computed under it.
CacheEntry(fingerprint, produced) == [fingerprint |-> fingerprint, produced |-> produced]
cached(cache, fingerprint) == {e \in cache : e.fingerprint = fingerprint}

\* A start that does not look at the evaluations in flight.
may_start_again(graph, req, cache, n) ==
  /\ n \in req.required
  /\ req.results[n] = NotYet
  /\ parents_produced(graph, req.results, n)
  /\ cached(cache, graph[n + 1].state_fingerprint) = {}

\* The node's evaluator may be called: the request requires the node, it has
\* produced nothing and is not being evaluated, its parents have produced
\* their values and the cache holds nothing under its state fingerprint.
may_start(graph, req, cache, n) ==
  /\ n \in req.required
  /\ req.results[n] = NotYet
  /\ n \notin req.in_flight
  /\ parents_produced(graph, req.results, n)
  /\ cached(cache, graph[n + 1].state_fingerprint) = {}

\* A commit that writes an entry whatever the evaluator returned.
commit_always(cache, fingerprint, res) ==
  {e \in cache : e.fingerprint # fingerprint} \cup {CacheEntry(fingerprint, res.val)}

\* The cache after an evaluation has returned: the entry of the result under
\* the node's state fingerprint, written whole, when the evaluation succeeded.
commit(cache, fingerprint, res) ==
  IF res.ok
  THEN {e \in cache : e.fingerprint # fingerprint} \cup {CacheEntry(fingerprint, res.val)}
  ELSE cache

\* ------------------------------------------------------------------ errors
\* VegaFusionError: one of the variants, its message (or the wrapped error)
\* and its ErrorContext.
VegaFusionError(kind, message, contexts) ==
  [kind |-> kind, message |-> message, contexts |-> contexts]

ErrorKinds ==
  {"ParseError", "CompilationError", "InternalError", "ExternalError",
   "SpecificationError", "ArrowError", "DataFusionError", "IOError", "SerdeJsonError"}

\* An error of another crate, before its conversion.
ForeignError(type, message) == [foreign |-> type, message |-> message]
ForeignTypes == {"ParseFloatError", "DataFusionError", "ArrowError", "io::Error", "serde_json::Error"}

\* VegaFusionError::internal
internal(message) == VegaFusionError("InternalError", message, <<>>)

\* From<E> for VegaFusionError; a VegaFusionError converts to itself.
into(err) ==
  IF "foreign" \notin DOMAIN err THEN err
  ELSE VegaFusionError(
         CASE err.foreign = "ParseFloatError" -> "ParseError"
           [] err.foreign = "DataFusionError" -> "DataFusionError"
           [] err.foreign = "ArrowError" -> "ArrowError"
           [] err.foreign = "io::Error" -> "IOError"
           [] err.foreign = "serde_json::Error" -> "SerdeJsonError",
         err.message, <<>>)

\* A with_context that puts the new line before the earlier ones.
VegaFusionError_with_context_first(self, context) ==
  [self EXCEPT !.contexts = <<context>> \o @]

\* VegaFusionError::with_context
VegaFusionError_with_context(self, context) ==
  [self EXCEPT !.contexts = Append(@, context)]

\* A Result whose error is an error value.
ErrOf(err) == [ok |-> FALSE, err |-> err, val |-> <<>>]

\* ResultWithContext for Result<R, E>
Result_with_context(self, context) ==
  IF self.ok THEN self
  ELSE ErrOf(VegaFusionError_with_context(into(self.err), context))

\* ResultWithContext for Option<R>
Option_with_context(self, context) ==
  IF self # <<>> THEN Ok(self[1]) ELSE ErrOf(internal(context))

\* Messages, context lines and the depth of the call stack an error crosses.
MaxFrames == 3
Messages == {"m1", "m2"}
ContextLines == {"c1", "c2"}

\* ------------------------------------------------------------ column usage
\* ColumnUsage: Unknown, or Known with a set of column names.
Unknown == [kind |-> "Unknown", cols |-> {}]
Known(cols) == [kind |-> "Known", cols |-> cols]

\* ColumnUsage::empty
empty == Known({})

\* From<&[&str]> for ColumnUsage: the names of the slice, collected in a set.
ColumnUsage_from(columns) == Known(Range(columns))

\* A union that keeps the known columns of the receiver when the argument is
\* Unknown.
union_keeps_known(self, other) ==
  IF self.kind = "Known" /\ other.kind = "Known"
    THEN Known(self.cols \cup other.cols)
    ELSE IF self.kind = "Known" THEN self ELSE Unknown

\* ColumnUsage::union
union(self, other) ==
  IF self.kind = "Known" /\ other.kind = "Known"
    THEN Known(self.cols \cup other.cols)
    ELSE Unknown

\* ColumnUsage::with_column
with_column(self, column) == union(self, ColumnUsage_from(<<column>>))

\* The column names of the tests, the first MaxColumns of them in use.
MaxColumns == 3
ColumnNames == <<"one", "two", "three", "four", "five">>
Columns == {ColumnNames[i] : i \in 1..MaxColumns}
Usages == {Unknown} \cup {Known(cols) : cols \in SUBSET Columns}

\* ---------------------------------------------------- aggregate transform
\* AggregateOpSpec: the variants, by their lowercase names.
AggregateOpSpec ==
  <<"count", "valid", "missing", "distinct", "sum", "product", "mean", "average",
    "variance", "variancep", "stdev", "stdevp", "stderr", "median", "q1", "q3",
    "ci0", "ci1", "min", "max", "argmin", "argmax", "values">>

\* AggregateTransformSpec: the fields supported() reads, each an Option.
AggregateTransformSpec(ops, cross, drop) == [ops |-> ops, cross |-> cross, drop |-> drop]

\* The matches!(op, ..) of supported().
matches_supported_op(op) ==
  op \in {"count", "valid", "missing", "distinct", "sum", "mean", "average",
          "min", "max", "variance", "variancep", "stdev", "stdevp"}

\* supported() without the test of drop.
AggregateTransformSpec_supported_any_drop(self) ==
  LET ops == IF self.ops = <<>> THEN <<"count">> ELSE self.ops[1]
  IN  IF \E i \in DOMAIN ops : ~matches_supported_op(ops[i]) THEN FALSE
      ELSE IF self.cross = <<TRUE>> THEN FALSE
      ELSE TRUE

\* AggregateTransformSpec::supported: false at the first op outside the list,
\* then false for cross = Some(true), then false for drop = Some(false).
AggregateTransformSpec_supported(self) ==
  LET ops == IF self.ops = <<>> THEN <<"count">> ELSE self.ops[1]
  IN  IF \E i \in DOMAIN ops : ~matches_supported_op(ops[i]) THEN FALSE
      ELSE IF self.cross = <<TRUE>> THEN FALSE
      ELSE IF self.drop = <<FALSE>> THEN FALSE
      ELSE TRUE

\* The transforms of the tests: up to MaxOps ops, cross and drop absent, true
\* or false.
MaxOps == 2
OpLists == UNION {[1..n -> Range(AggregateOpSpec)] : n \in 0..MaxOps}
AggregateTransforms ==
  {AggregateTransformSpec(ops, cross, drop) :
     ops \in {<<>>} \cup {<<l>> : l \in OpLists},
     cross \in {<<>>, <<TRUE>>, <<FALSE>>},
     drop \in {<<>>, <<TRUE>>, <<FALSE>>}}

\* No transform asked about yet.
NoTransform == [spec |-> AggregateTransformSpec(<<>>, <<>>, <<>>), op |-> "none", out |-> FALSE]

\* ------------------------------------------------- the callbacks, by step
\* TaskGraphValueRequest of a callback: the graph and the indices asked for.
TaskGraphValueRequest(task_graph, indices) == [task_graph |-> task_graph, indices |-> indices]

\* One invocation of a callback closure: the variable it was registered for,
\* the value the view passed, where it stands, and its locals.
Invocation(scoped_var, value, pc, updated_nodes, request_msg) ==
  [scoped_var |-> scoped_var, value |-> value, pc |-> pc,
   updated_nodes |-> updated_nodes, request_msg |-> request_msg]

\* An invocation that returned: its locals are gone.
Dropped == [pc |-> "returned"]

\* The guard is dropped as soon as update_value has returned.
guard_held_for_update(pc) == pc = "locked"

\* The MutexGuard task_graph lives from task_graph.lock() to the end of the
\* closure, after send_request.
guard_held(pc) == pc \in {"locked", "updated", "built", "sent"}

\* No callback invoked yet on a receiver whose graph is rendered.
Registered(rendered) ==
  [calls |-> <<>>, outbox |-> <<>>, applied |-> <<>>, rendered |-> rendered]

NoCallbacks == Registered(<<>>)

\* The invocations a view may have in flight or finished.
MaxCalls == 2

\* Server task lists with one and with two signals the client owns.
CallbackTasks == {<<ValueX, DataA, DataD>>, <<ValueX, ValueXGroup, DataA, DataC>>}

\* ---------------------------------------------------------- state machine
VARIABLES
  tasks,       \* the task list handed to TaskGraph::new
  task_scope,  \* the scope tree handed to TaskGraph::new
  status,      \* "init" before TaskGraph::new, then "ok", "err" or "panic"
  nodes,       \* TaskGraph.nodes of the graph
  twin,        \* TaskGraph.nodes of a second graph built from the same arguments
  ret,         \* the last call on the graph: its arguments and its result
  chart_spec,  \* the ChartSpec handed to render_vegafusion
  receiver,    \* the MsgReceiver
  sent,        \* the last request sent to the server, if any
  columns,     \* three ColumnUsage values, the last operation on them and its result
  cache,       \* the value cache of the runtime
  request,     \* the request the runtime is handling, or the last one it handled
  failure,     \* a Result or Option, and the context lines added to it so far
  transform,   \* an aggregate transform, and what supported() said of it
  callbacks    \* the invocations of the callbacks, the requests sent, the updates applied

client == <<chart_spec, receiver, sent>>
runtime == <<cache, request>>
vars == <<tasks, task_scope, status, nodes, twin, ret, client, columns, runtime, failure, transform, callbacks>>

\* No Result or Option yet.
NoFailure == [source |-> "none", option |-> <<>>, result |-> Ok(0), frames |-> <<>>]

\* No request yet.
NoRequest ==
  [state |-> "idle", indices |-> {}, required |-> {}, results |-> <<>>,
   in_flight |-> {}, calls |-> <<>>, args |-> <<>>, hits |-> {}]

\* No operation on column usages yet.
NoColumns ==
  [left |-> empty, right |-> empty, third |-> empty,
   op |-> "none", column |-> "", out |-> empty]

NoChart == ChartSpec(<<>>, {}, {})

\* A call that repeats the last one with the same result on an unchanged graph
\* leaves the state as it is; the same call is a step after any other call.
Call(op, node_index, value, res) ==
  [op |-> op, node_index |-> node_index, value |-> value, res |-> res]

\* A chart, and the task list of all of its definitions or of all but the
\* first.
Init ==
  /\ \E chart \in Charts : \E k \in 0..1 :
       /\ Len(chart) > 1 \/ k = 0
       /\ tasks = Without(chart, k)
       /\ task_scope = MakeTaskScope(chart)
  /\ status = "init"
  /\ nodes = <<>>
  /\ twin = <<>>
  /\ ret = Call("none", 0, Scalar(1), Ok(<<>>))
  /\ chart_spec = NoChart /\ receiver = NoReceiver /\ sent = <<>>
  /\ columns = NoColumns
  /\ cache = {} /\ request = NoRequest
  /\ callbacks = NoCallbacks
  /\ transform = NoTransform
  /\ failure = NoFailure

StatusOf(res) == IF res.ok THEN "ok" ELSE IF res.err = "panic" THEN "panic" ELSE "err"

\* TaskGraph::new(tasks, &task_scope)
New ==
  /\ status = "init"
  /\ \E res \in TaskGraph_new(tasks, task_scope) :
       /\ status' = StatusOf(res)
       /\ nodes' = res.val
       /\ ret' = Call("new", 0, Scalar(1), [res EXCEPT !.val = <<>>])
  /\ UNCHANGED <<callbacks, transform, failure, runtime, columns, client, tasks, task_scope, twin>>

\* graph.update_value(node_index, value), any index up to one past the end
UpdateValue ==
  /\ status = "ok"
  /\ \E node_index \in 0..Len(nodes), value \in TaskValues :
       LET upd == update_value(nodes, node_index, value)
       IN  /\ nodes' = upd.graph
           /\ ret' = Call("update_value", node_index, value, upd.res)
  /\ UNCHANGED <<callbacks, transform, failure, runtime, columns, client, tasks, task_scope, status, twin>>

Next == New \/ UpdateValue

Spec == Init /\ [][Next]_vars

\* Two graphs built from the same arguments.
NewPair ==
  /\ status = "init"
  /\ \E res \in TaskGraph_new(tasks, task_scope), other \in TaskGraph_new(tasks, task_scope) :
       /\ status' = IF StatusOf(res) = StatusOf(other) THEN StatusOf(res) ELSE "differ"
       /\ nodes' = res.val
       /\ twin' = other.val
       /\ ret' = Call("new", 0, Scalar(1), [res EXCEPT !.val = <<>>])
  /\ UNCHANGED <<callbacks, transform, failure, runtime, columns, client, tasks, task_scope>>

\* One built graph and a copy of it, then updated independently.
NewTwin ==
  /\ status = "init"
  /\ \E res \in TaskGraph_new(tasks, task_scope) :
       /\ status' = StatusOf(res)
       /\ nodes' = res.val
       /\ twin' = res.val
       /\ ret' = Call("new", 0, Scalar(1), [res EXCEPT !.val = <<>>])
  /\ UNCHANGED <<callbacks, transform, failure, runtime, columns, client, tasks, task_scope>>

\* A successful update_value on the first graph, and one on the second.
UpdateFirst ==
  /\ status = "ok"
  /\ \E node_index \in 0..(Len(nodes) - 1), value \in TaskValues :
       LET upd == update_value(nodes, node_index, value)
       IN  /\ upd.res.ok
           /\ nodes' = upd.graph
  /\ UNCHANGED <<callbacks, transform, failure, runtime, columns, client, tasks, task_scope, status, twin, ret>>

UpdateTwin ==
  /\ status = "ok"
  /\ \E node_index \in 0..(Len(twin) - 1), value \in TaskValues :
       LET upd == update_value(twin, node_index, value)
       IN  /\ upd.res.ok
           /\ twin' = upd.graph
  /\ UNCHANGED <<callbacks, transform, failure, runtime, columns, client, tasks, task_scope, status, nodes, ret>>

NextPair == NewTwin \/ UpdateFirst \/ UpdateTwin

SpecPair == Init /\ [][NextPair]_vars

\* The two builds alone.
SpecBuild == Init /\ [][NewPair]_vars

\* One of the accessors called on the graph (&self), any index up to two
\* past the last.
Access ==
  /\ status = "ok"
  /\ \E op \in Accessors, node_index \in 0..(Len(nodes) + 1) :
       ret' = Call(op, node_index, Scalar(1), accessor(op, nodes, node_index))
  /\ UNCHANGED <<callbacks, transform, failure, runtime, columns, client, tasks, task_scope, status, nodes, twin>>

\* graph.update_value(node_index, value) at an index past the last.
UpdateOutOfRange ==
  /\ status = "ok"
  /\ \E node_index \in Len(nodes)..(Len(nodes) + 1), value \in TaskValues :
       LET upd == update_value(nodes, node_index, value)
       IN  /\ nodes' = upd.graph
           /\ ret' = Call("update_value", node_index, value, upd.res)
  /\ UNCHANGED <<callbacks, transform, failure, runtime, columns, client, tasks, task_scope, status, twin>>

NextAccess == New \/ Access \/ UpdateOutOfRange

SpecAccess == Init /\ [][NextAccess]_vars

\* The scope tree of a chart, for resolve_scope alone.
InitResolve ==
  /\ \E chart \in ScopeCharts :
       /\ tasks = chart
       /\ task_scope = MakeTaskScope(chart)
  /\ status = "init"
  /\ nodes = <<>>
  /\ twin = <<>>
  /\ ret = Call("none", 0, Scalar(1), Ok(<<>>))
  /\ chart_spec = NoChart /\ receiver = NoReceiver /\ sent = <<>>
  /\ columns = NoColumns
  /\ cache = {} /\ request = NoRequest
  /\ callbacks = NoCallbacks
  /\ transform = NoTransform
  /\ failure = NoFailure

\* task_scope.resolve_scope(&variable, usage_scope) for a name of the pool
\* and a usage scope of the tree.
Resolve ==
  /\ \E variable \in {new_signal("x"), new_data("x"), new_signal("e"), new_data("a"),
                       Variable("Scale", "s")},
        usage_scope \in DOMAIN task_scope :
       ret' = Call("resolve_scope", 0,
                   [variable |-> variable, usage_scope |-> usage_scope],
                   resolve_scope(task_scope, variable, usage_scope))
  /\ UNCHANGED <<callbacks, transform, failure, runtime, columns, client, tasks, task_scope, status, nodes, twin>>

SpecResolve == InitResolve /\ [][Resolve]_vars

\* What the marks of a chart may read: each variable with the mark's scope.
MarkReads ==
  {MarkRead(new_data("a"), Group), MarkRead(new_signal("e"), Root),
   MarkRead(new_data("d"), Root)}

\* A chart specification: definitions of the pool, at most one dataset with
\* transforms the server does not support, at most two reads by marks.
InitClient ==
  /\ \E defs \in Charts, marks \in SUBSET MarkReads :
       \E unsupported \in SUBSET {ScopedVariable(defs[i]) : i \in DOMAIN defs} :
          /\ Cardinality(marks) <= 2
          /\ Cardinality(unsupported) <= 1
          /\ \A sv \in unsupported : sv[1].namespace = "Data"
          /\ chart_spec = ChartSpec([i \in DOMAIN defs |-> Definition(defs[i], FALSE)],
                                    unsupported, marks)
  /\ tasks = <<>>
  /\ task_scope = MakeTaskScope(<<>>)
  /\ status = "init"
  /\ nodes = <<>>
  /\ twin = <<>>
  /\ ret = Call("none", 0, Scalar(1), Ok(<<>>))
  /\ receiver = NoReceiver /\ sent = <<>>
  /\ columns = NoColumns
  /\ cache = {} /\ request = NoRequest
  /\ callbacks = NoCallbacks
  /\ transform = NoTransform
  /\ failure = NoFailure

\* render_vegafusion(element, spec_str, ..)
Render ==
  /\ status = "init"
  /\ \E r \in render_vegafusion(chart_spec) :
       /\ status' = IF r.res.ok THEN "ok" ELSE "panic"
       /\ tasks' = r.tasks
       /\ task_scope' = r.task_scope
       /\ nodes' = r.graph
       /\ receiver' = r.receiver
       /\ sent' = r.sent
       /\ ret' = Call("render_vegafusion", 0, Scalar(1), r.res)
  /\ UNCHANGED <<callbacks, transform, failure, runtime, columns, chart_spec, twin>>

\* The callback registered for a client_to_server variable, called by the
\* view with a new value: a scalar for a signal, a table for a dataset.
Callback ==
  /\ status = "ok"
  /\ \E scoped_var \in receiver.comm_plan.client_to_server, value \in TaskValues :
       LET node_value_index == receiver.task_graph_mapping[scoped_var]
           upd == update_value(nodes, node_value_index.node_index, value)
           updated_nodes == request_indices(upd.res.val,
                                            receiver.server_to_client_value_indices)
       IN  /\ value.tag = (IF scoped_var[1].namespace = "Signal" THEN "Scalar" ELSE "Table")
           /\ ret' = Call("update_value", node_value_index.node_index, value, upd.res)
           /\ IF upd.res.ok
              THEN /\ nodes' = upd.graph
                   /\ sent' = <<Request(updated_nodes)>>
                   /\ status' = status
              ELSE /\ nodes' = upd.graph
                   /\ sent' = sent
                   /\ status' = "panic"
  /\ UNCHANGED <<callbacks, transform, failure, runtime, columns, chart_spec, receiver, tasks, task_scope, twin>>

NextClient == Render \/ Callback

SpecClient == InitClient /\ [][NextClient]_vars

\* The InputVars pass over the chart specification, with the scope tree of
\* the chart.
InputVars ==
  /\ status = "init"
  /\ ret' = Call("input_vars", 0, Scalar(1),
                 spec_input_vars(chart_spec, to_task_scope(chart_spec)))
  /\ UNCHANGED <<callbacks, transform, tasks, task_scope, status, nodes, twin, client, columns, runtime, failure>>

SpecInputVars == InitClient /\ [][InputVars]_vars

\* Three column usages, no graph.
InitColumns ==
  /\ tasks = <<>>
  /\ task_scope = MakeTaskScope(<<>>)
  /\ status = "init"
  /\ nodes = <<>>
  /\ twin = <<>>
  /\ ret = Call("none", 0, Scalar(1), Ok(<<>>))
  /\ chart_spec = NoChart /\ receiver = NoReceiver /\ sent = <<>>
  /\ cache = {} /\ request = NoRequest
  /\ callbacks = NoCallbacks
  /\ transform = NoTransform
  /\ failure = NoFailure
  /\ \E left \in Usages, right \in Usages, third \in Usages :
       columns = [NoColumns EXCEPT !.left = left, !.right = right, !.third = third]

\* left.union(&right)
ApplyUnion ==
  /\ columns' = [columns EXCEPT !.op = "union", !.column = "",
                                !.out = union(columns.left, columns.right)]
  /\ UNCHANGED <<callbacks, transform, failure, tasks, task_scope, status, nodes, twin, ret, client, runtime>>

\* left.with_column(column)
ApplyWithColumn ==
  /\ \E column \in Columns :
       columns' = [columns EXCEPT !.op = "with_column", !.column = column,
                                  !.out = with_column(columns.left, column)]
  /\ UNCHANGED <<callbacks, transform, failure, tasks, task_scope, status, nodes, twin, ret, client, runtime>>

NextColumns == ApplyUnion \/ ApplyWithColumn

SpecColumns == InitColumns /\ [][NextColumns]_vars

\* A chart of the root signal x and the datasets that read it or each
\* other, and the task list of all of its definitions.
InitRuntime ==
  /\ \E chart \in Charts :
       /\ Range(chart) \subseteq {ValueX, DataA, DataA2, DataB, DataC, DataD}
       /\ tasks = chart
       /\ task_scope = MakeTaskScope(chart)
  /\ status = "init"
  /\ nodes = <<>>
  /\ twin = <<>>
  /\ ret = Call("none", 0, Scalar(1), Ok(<<>>))
  /\ chart_spec = NoChart /\ receiver = NoReceiver /\ sent = <<>>
  /\ columns = NoColumns
  /\ cache = {} /\ request = NoRequest
  /\ callbacks = NoCallbacks
  /\ transform = NoTransform
  /\ failure = NoFailure

\* The indices a request can name: every node and every output slot.
AllIndices == Range(node_value_indexes(nodes, [i \in 1..Len(nodes) |-> i - 1]))
RequestNodes == 0..(Len(nodes) - 1)

\* A request for one or two indices arrives when no request is being handled.
SubmitRequest ==
  /\ status = "ok" /\ request.state # "running"
  /\ \E indices \in SUBSET AllIndices :
       /\ Cardinality(indices) \in 1..2
       /\ request' = [state |-> "running", indices |-> indices,
                      required |-> required(nodes, indices),
                      results |-> [n \in RequestNodes |-> NotYet],
                      in_flight |-> {},
                      calls |-> [n \in RequestNodes |-> 0],
                      args |-> [n \in RequestNodes |-> <<>>],
                      hits |-> {}]
  /\ UNCHANGED <<callbacks, transform, failure, tasks, task_scope, status, nodes, twin, ret, client, columns, cache>>

\* The cache holds an entry under the node's state fingerprint: the node
\* produces the entry, its evaluator is not called.
CacheHit ==
  /\ request.state = "running"
  /\ \E n \in request.required :
       /\ request.results[n] = NotYet /\ n \notin request.in_flight
       /\ parents_produced(nodes, request.results, n)
       /\ \E e \in cached(cache, nodes[n + 1].state_fingerprint) :
            request' = [request EXCEPT !.results[n] = Ok(e.produced),
                                       !.hits = @ \cup {n}]
  /\ UNCHANGED <<callbacks, transform, failure, tasks, task_scope, status, nodes, twin, ret, client, columns, cache>>

\* The evaluator of a node is called with the values of its parents; the
\* evaluation is in flight until it returns.
StartEval ==
  /\ request.state = "running"
  /\ \E n \in RequestNodes :
       /\ may_start(nodes, request, cache, n)
       /\ request.calls[n] < 2
       /\ request' = [request EXCEPT !.in_flight = @ \cup {n},
                                     !.calls[n] = @ + 1,
                                     !.args[n] = parent_values(nodes, request.results, n)]
  /\ UNCHANGED <<callbacks, transform, failure, tasks, task_scope, status, nodes, twin, ret, client, columns, cache>>

\* An evaluation returns: with what the task evaluates to, or, for a data
\* task, with an error of the evaluator or a timeout.
FinishEval ==
  /\ request.state = "running"
  /\ \E n \in request.in_flight :
       \E res \in {Task_eval(nodes[n + 1].task, request.args[n])}
                    \cup (IF nodes[n + 1].task.task_kind.kind = "Value" THEN {}
                          ELSE {Err("ExternalError"), Err("Timeout")}) :
          /\ request' = [request EXCEPT !.in_flight = @ \ {n}, !.results[n] = res]
          /\ cache' = commit(cache, nodes[n + 1].state_fingerprint, res)
  /\ UNCHANGED <<callbacks, transform, failure, tasks, task_scope, status, nodes, twin, ret, client, columns>>

\* The error of a parent is the result of the node.
PropagateError ==
  /\ request.state = "running"
  /\ \E n \in request.required :
       /\ request.results[n] = NotYet /\ n \notin request.in_flight
       /\ \E k \in DOMAIN nodes[n + 1].incoming :
            LET res == request.results[nodes[n + 1].incoming[k].source]
            IN  /\ ~res.ok /\ res # NotYet
                /\ request' = [request EXCEPT !.results[n] = res]
  /\ UNCHANGED <<callbacks, transform, failure, tasks, task_scope, status, nodes, twin, ret, client, columns, cache>>

\* Every required node has produced a value or an error: the response.
Respond ==
  /\ request.state = "running"
  /\ \A n \in request.required : request.results[n] # NotYet
  /\ request' = [request EXCEPT !.state = "done"]
  /\ UNCHANGED <<callbacks, transform, failure, tasks, task_scope, status, nodes, twin, ret, client, columns, cache>>

\* The update is cancelled: the evaluations in flight and the results not in
\* the cache are discarded.
Cancel ==
  /\ request.state = "running"
  /\ request' = [NoRequest EXCEPT !.state = "cancelled", !.indices = request.indices]
  /\ UNCHANGED <<callbacks, transform, failure, tasks, task_scope, status, nodes, twin, ret, client, columns, cache>>

\* The response of a handled request: the values of the indices, each with
\* the scope and variable of its node, or the one error.
response(graph, req) ==
  LET failed == {n \in req.required : ~req.results[n].ok}
  IN  IF failed # {}
      THEN Err((CHOOSE e \in {req.results[n].err : n \in failed} : TRUE))
      ELSE Ok({<<graph[i.node_index + 1].task.scope,
                 IF i.output_index = <<>> THEN graph[i.node_index + 1].task.variable
                 ELSE output_vars(graph[i.node_index + 1].task)[i.output_index[1] + 1],
                 edge_value(req.results,
                            IncomingEdge(i.node_index, i.output_index))>> :
               i \in req.indices})

NextRuntime ==
  New \/ SubmitRequest \/ CacheHit \/ StartEval \/ FinishEval \/ PropagateError
      \/ Respond \/ Cancel

SpecRuntime == InitRuntime /\ [][NextRuntime]_vars

\* A Result of a failed or successful call, or an Option.
InitErrors ==
  /\ tasks = <<>>
  /\ task_scope = MakeTaskScope(<<>>)
  /\ status = "init"
  /\ nodes = <<>>
  /\ twin = <<>>
  /\ ret = Call("none", 0, Scalar(1), Ok(<<>>))
  /\ chart_spec = NoChart /\ receiver = NoReceiver /\ sent = <<>>
  /\ columns = NoColumns
  /\ cache = {} /\ request = NoRequest
  /\ callbacks = NoCallbacks
  /\ transform = NoTransform
  /\ \/ \E kind \in ErrorKinds, message \in Messages :
          failure = [NoFailure EXCEPT !.source = "result",
                       !.result = ErrOf(VegaFusionError(kind, message, <<>>))]
     \/ \E type \in ForeignTypes, message \in Messages :
          failure = [NoFailure EXCEPT !.source = "result",
                       !.result = ErrOf(ForeignError(type, message))]
     \/ failure = [NoFailure EXCEPT !.source = "result", !.result = Ok(1)]
     \/ \E option \in {<<>>, <<1>>} :
          failure = [NoFailure EXCEPT !.source = "option", !.option = option]

\* result.with_context(|| context) in a frame the Result passes through
WithContext ==
  /\ failure.source = "result"
  /\ Len(failure.frames) < MaxFrames
  /\ \E context \in ContextLines :
       failure' = [failure EXCEPT
                     !.result = Result_with_context(failure.result, context),
                     !.frames = IF failure.result.ok THEN @ ELSE Append(@, context)]
  /\ UNCHANGED <<callbacks, transform, tasks, task_scope, status, nodes, twin, ret, client, columns, runtime>>

\* option.with_context(|| context): the Option becomes a Result
OptionWithContext ==
  /\ failure.source = "option"
  /\ \E context \in ContextLines :
       failure' = [failure EXCEPT
                     !.source = "result",
                     !.result = Option_with_context(failure.option, context)]
  /\ UNCHANGED <<callbacks, transform, tasks, task_scope, status, nodes, twin, ret, client, columns, runtime>>

NextErrors == WithContext \/ OptionWithContext

SpecErrors == InitErrors /\ [][NextErrors]_vars

\* An aggregate transform of a dataset.
InitAggregate ==
  /\ tasks = <<>>
  /\ task_scope = MakeTaskScope(<<>>)
  /\ status = "init"
  /\ nodes = <<>>
  /\ twin = <<>>
  /\ ret = Call("none", 0, Scalar(1), Ok(<<>>))
  /\ chart_spec = NoChart /\ receiver = NoReceiver /\ sent = <<>>
  /\ columns = NoColumns
  /\ cache = {} /\ request = NoRequest
  /\ callbacks = NoCallbacks
  /\ failure = NoFailure
  /\ \E spec \in AggregateTransforms : transform = [NoTransform EXCEPT !.spec = spec]

\* transform.supported()
Supported ==
  /\ transform.op = "none"
  /\ transform' = [transform EXCEPT !.op = "supported",
                                    !.out = AggregateTransformSpec_supported(transform.spec)]
  /\ UNCHANGED <<callbacks, failure, tasks, task_scope, status, nodes, twin, ret, client, columns, runtime>>

SpecAggregate == InitAggregate /\ [][Supported]_vars

\* A receiver with its callbacks registered: the server graph, its mapping,
\* every Value signal owned by the client, and all other variables or the
\* datasets alone sent back to it.
InitCallbacks ==
  /\ \E list \in CallbackTasks :
       \E built \in TaskGraph_new(list, MakeTaskScope(list)) :
          LET mapping == build_mapping(built.val)
              client_to_server == {ScopedVariable(list[i]) :
                                     i \in {j \in DOMAIN list : list[j].task_kind.kind = "Value"}}
          IN  /\ built.ok
              /\ tasks = list
              /\ task_scope = MakeTaskScope(list)
              /\ nodes = built.val
              /\ callbacks = Registered(built.val)
              /\ \E server_to_client \in {DOMAIN mapping \ client_to_server,
                                          {sv \in DOMAIN mapping : sv[1].namespace = "Data"}} :
                   receiver = MsgReceiver(<<>>, <<>>,
                                CommPlan(server_to_client, client_to_server), mapping,
                                {mapping[sv] : sv \in server_to_client})
  /\ status = "ok"
  /\ twin = <<>>
  /\ ret = Call("none", 0, Scalar(1), Ok(<<>>))
  /\ chart_spec = NoChart /\ sent = <<>>
  /\ columns = NoColumns
  /\ cache = {} /\ request = NoRequest
  /\ transform = NoTransform
  /\ failure = NoFailure

\* The view calls the closure registered for a variable with a new value.
CallbackInvoked ==
  /\ status = "ok"
  /\ Len(callbacks.calls) < MaxCalls
  /\ \E scoped_var \in receiver.comm_plan.client_to_server, value \in TaskValues :
       /\ value.tag = (IF scoped_var[1].namespace = "Signal" THEN "Scalar" ELSE "Table")
       /\ callbacks' = [callbacks EXCEPT !.calls =
                          Append(@, Invocation(scoped_var, value, "called", <<>>, <<>>))]
  /\ UNCHANGED <<transform, failure, runtime, columns, client, tasks, task_scope,
                 status, nodes, twin, ret>>

\* task_graph.lock(): waits while another invocation holds the guard.
CallbackLock ==
  /\ status = "ok"
  /\ \E c \in DOMAIN callbacks.calls :
       /\ callbacks.calls[c].pc = "called"
       /\ \A d \in DOMAIN callbacks.calls : ~guard_held(callbacks.calls[d].pc)
       /\ callbacks' = [callbacks EXCEPT !.calls[c].pc = "locked"]
  /\ UNCHANGED <<transform, failure, runtime, columns, client, tasks, task_scope,
                 status, nodes, twin, ret>>

\* task_graph.update_value(node_index, value).unwrap()
CallbackUpdate ==
  /\ status = "ok"
  /\ \E c \in DOMAIN callbacks.calls :
       LET call == callbacks.calls[c]
           node_value_index == receiver.task_graph_mapping[call.scoped_var]
           upd == update_value(nodes, node_value_index.node_index, call.value)
       IN  /\ call.pc = "locked"
           /\ nodes' = upd.graph
           /\ ret' = Call("update_value", node_value_index.node_index, call.value, upd.res)
           /\ IF upd.res.ok
              THEN /\ callbacks' = [callbacks EXCEPT
                        !.calls[c].pc = "updated",
                        !.calls[c].updated_nodes = upd.res.val,
                        !.applied = Append(@, [node_index |-> node_value_index.node_index,
                                               value |-> call.value])]
                   /\ status' = status
              ELSE /\ callbacks' = [callbacks EXCEPT !.calls[c].pc = "panicked"]
                   /\ status' = "panic"
  /\ UNCHANGED <<transform, failure, runtime, columns, client, tasks, task_scope, twin>>

\* The filter of the updated nodes and the request with a clone of the graph.
CallbackBuild ==
  /\ status = "ok"
  /\ \E c \in DOMAIN callbacks.calls :
       LET call == callbacks.calls[c]
           updated_nodes == request_indices(call.updated_nodes,
                                            receiver.server_to_client_value_indices)
       IN  /\ call.pc = "updated"
           /\ callbacks' = [callbacks EXCEPT
                !.calls[c].pc = "built",
                !.calls[c].request_msg = <<TaskGraphValueRequest(nodes, updated_nodes)>>]
  /\ UNCHANGED <<transform, failure, runtime, columns, client, tasks, task_scope,
                 status, nodes, twin, ret>>

\* Self::send_request(send_msg_fn, request_msg)
CallbackSend ==
  /\ status = "ok"
  /\ \E c \in DOMAIN callbacks.calls :
       /\ callbacks.calls[c].pc = "built"
       /\ callbacks' = [callbacks EXCEPT
            !.calls[c].pc = "sent",
            !.outbox = Append(@, callbacks.calls[c].request_msg[1])]
  /\ UNCHANGED <<transform, failure, runtime, columns, client, tasks, task_scope,
                 status, nodes, twin, ret>>

\* The closure returns: its locals, the guard among them, are dropped.
CallbackReturn ==
  /\ status = "ok"
  /\ \E c \in DOMAIN callbacks.calls :
       /\ callbacks.calls[c].pc = "sent"
       /\ callbacks' = [callbacks EXCEPT !.calls[c] = Dropped]
  /\ UNCHANGED <<transform, failure, runtime, columns, client, tasks, task_scope,
                 status, nodes, twin, ret>>

NextCallbacks ==
  \/ CallbackInvoked
  \/ CallbackLock
  \/ CallbackUpdate
  \/ CallbackBuild
  \/ CallbackSend
  \/ CallbackReturn

SpecCallbacks == InitCallbacks /\ [][NextCallbacks]_vars

\* ------------------------------------------------------ terms of the claims
NodeIndexes(graph) == 0..(Len(graph) - 1)

\* The nodes reached from node n over one or more outgoing edges.
RECURSIVE Reach(_, _, _)
Reach(graph, frontier, seen) ==
  LET next == UNION {Range(child_indices(graph, i).val) : i \in frontier} \ seen
  IN  IF next = {} THEN seen ELSE Reach(graph, next, seen \cup next)

Descendants(graph, n) == Reach(graph, {n}, {})

\* A step that is a call of update_value, and one that succeeded.
Called == ret' # ret /\ ret'.op = "update_value"
Updated == Called /\ ret'.res.ok

\* The node indexes in the list update_value returned.
Returned(res) == {res.val[k].node_index : k \in DOMAIN res.val}

\* The nodes whose state fingerprint differs between two graphs of one size.
Changed(before, after) ==
  {i \in NodeIndexes(before) :
     after[i + 1].state_fingerprint # before[i + 1].state_fingerprint}

\* The value node n holds is the one the task value converts to.
Holds(graph, n, value) ==
  graph[n + 1].task.task_kind.value = ProtoTaskValue_try_from(value).val

\* C1: TaskGraph::new returns an error or a graph in topological order: every
\* incoming edge comes from a lower index, every outgoing edge goes to a
\* higher one.
TopologicalOrder ==
  /\ status # "panic"
  /\ status = "ok" =>
       \A i \in NodeIndexes(nodes) :
          /\ \A k \in DOMAIN nodes[i + 1].incoming : nodes[i + 1].incoming[k].source < i
          /\ \A k \in DOMAIN nodes[i + 1].outgoing : nodes[i + 1].outgoing[k].target > i

\* A built chain of three nodes: the middle one has a parent and a child.
ChainBuilt ==
  /\ status = "ok" /\ ret.op = "new" /\ Len(nodes) = 3
  /\ nodes[2].incoming # <<>> /\ nodes[2].outgoing # <<>>

\* C2: after a successful update_value(n, v) the nodes returned are exactly
\* the nodes whose state fingerprint changed, and all of them are n or
\* descendants of n.
UpdateMinimality ==
  [][Updated =>
       /\ Len(nodes') = Len(nodes)
       /\ Returned(ret'.res) = Changed(nodes, nodes')
       /\ Changed(nodes, nodes') \subseteq
            {ret'.node_index} \cup Descendants(nodes, ret'.node_index)]_vars

\* An update that changed some but not all nodes of a graph with edges.
PartialUpdate ==
  /\ ret.op = "update_value" /\ ret.res.ok
  /\ Cardinality(Returned(ret.res)) = 2 /\ Len(nodes) = 3

\* C3: update_value(n, v) with the value n already holds returns the empty
\* list and changes no state fingerprint; so does a second call in a row
\* with the same arguments.
SameValueNoChange ==
  [][/\ Updated /\ Holds(nodes, ret'.node_index, ret'.value) =>
          ret'.res.val = <<>> /\ Changed(nodes, nodes') = {}
     /\ /\ Updated /\ ret.op = "update_value" /\ ret.res.ok
        /\ ret'.node_index = ret.node_index /\ ret'.value = ret.value
        => ret'.res.val = <<>>]_vars

\* The second of two equal updates of a node that has children: the node
\* holds a value other than the one it was built with, nothing is returned.
SecondUpdate ==
  /\ ret.op = "update_value" /\ ret.res.ok /\ ret.res.val = <<>>
  /\ nodes[ret.node_index + 1].outgoing # <<>>
  /\ ~Holds(nodes, ret.node_index, Scalar(1))

\* C4: update_value(n, v) with a value other than the one n holds returns n
\* and all of its descendants, in ascending node index.
NewValueReachesDescendants ==
  [][Updated /\ ~Holds(nodes, ret'.node_index, ret'.value) =>
       /\ Returned(ret'.res) = {ret'.node_index} \cup Descendants(nodes, ret'.node_index)
       /\ \A k, l \in DOMAIN ret'.res.val :
            k < l => ret'.res.val[k].node_index <= ret'.res.val[l].node_index]_vars

\* A value node, its child and its grandchild were returned, output slot included.
ChainUpdated ==
  /\ ret.op = "update_value" /\ ret.res.ok
  /\ Cardinality(Returned(ret.res)) = 3
  /\ \E k \in DOMAIN ret.res.val : ret.res.val[k].output_index # <<>>
  /\ Descendants(nodes, ret.node_index) # Range(child_indices(nodes, ret.node_index).val)

\* C5: a successful update_value(n, v) leaves the size of the graph, every
\* id fingerprint, variable, scope and edge, and every task but that of n as
\* they were; n is a Value node before and after.
UpdateFrame ==
  [][Updated =>
       /\ Len(nodes') = Len(nodes)
       /\ nodes[ret'.node_index + 1].task.task_kind.kind = "Value"
       /\ \A i \in DOMAIN nodes :
            /\ nodes'[i].id_fingerprint = nodes[i].id_fingerprint
            /\ nodes'[i].incoming = nodes[i].incoming
            /\ nodes'[i].outgoing = nodes[i].outgoing
            /\ nodes'[i].task.variable = nodes[i].task.variable
            /\ nodes'[i].task.scope = nodes[i].task.scope
            /\ nodes'[i].task.task_kind.kind = nodes[i].task.task_kind.kind
            /\ i # ret'.node_index + 1 => nodes'[i].task = nodes[i].task]_vars

\* A Value node inside the group mark took a table in place of its scalar,
\* next to a node that is no Value.
TableSwapped ==
  /\ ret.op = "update_value" /\ ret.res.ok /\ ret.res.val # <<>>
  /\ ret.value = Table(1)
  /\ nodes[ret.node_index + 1].task.scope = Group
  /\ \E i \in DOMAIN nodes : nodes[i].task.task_kind.kind # "Value"

\* C10: a failed update_value leaves the graph as it was.
FailedUpdateFrame == [][Called /\ ~ret'.res.ok => nodes' = nodes]_vars

\* The conversion of the new value failed on a Value node that has a child.
ConversionFailed ==
  /\ ret.op = "update_value" /\ ~ret.res.ok /\ ret.res.err = "ArrowError"
  /\ nodes[ret.node_index + 1].outgoing # <<>>

\* The tasks a graph holds, and the fingerprints it gives each scoped variable.
\* The two graphs hold the same task, and so the same value, in every node.
SameValues == \A i \in DOMAIN nodes : nodes[i].task = twin[i].task

Fingerprints(graph) ==
  {<<ScopedVariable(graph[i].task), graph[i].id_fingerprint, graph[i].state_fingerprint>> :
     i \in DOMAIN graph}

\* C6: starting from the same built graph, any two sequences of update_value
\* that leave every Value node holding the same value leave the same state
\* fingerprint on every node.
HistoryIndependence ==
  (status = "ok" /\ SameValues) =>
     \A i \in DOMAIN nodes : nodes[i].state_fingerprint = twin[i].state_fingerprint

\* Both graphs hold a table in a Value node that has a child.
SameValuesReached ==
  /\ status = "ok" /\ SameValues
  /\ \E i \in DOMAIN nodes :
       /\ nodes[i].task.task_kind.kind = "Value"
       /\ nodes[i].task.task_kind.value.data = "Table"
       /\ nodes[i].outgoing # <<>>

\* C7: two builds of the same task list against the same scope tree end
\* alike and give every scoped variable the same id and state fingerprint,
\* whatever the iteration order of the task map and the result of the sort.
BuildDeterminism ==
  /\ status # "differ"
  /\ status = "ok" => Fingerprints(nodes) = Fingerprints(twin)

\* Two builds of three nodes with edges whose sorts came out differently.
BuiltInTwoOrders ==
  /\ status = "ok" /\ Len(nodes) = 3 /\ nodes # twin
  /\ \E i \in DOMAIN nodes : nodes[i].incoming # <<>>
  /\ \E i \in DOMAIN nodes : nodes[i].task # twin[i].task

\* Node t of the graph reads node n, and only through inputs with
\* propagate = false, and has no other parent that depends on n.
ReadsWithoutPropagate(graph, t, n) ==
  LET task == graph[t + 1].task
      ins == input_vars(task)
      reads_n(k) ==
        LET resolved == resolve_scope(task_scope, ins[k].var, task.scope)
        IN  resolved.ok /\ <<resolved.val.var, resolved.val.scope>>
                             = ScopedVariable(graph[n + 1].task)
      parents == Range(parent_indices(graph, t).val)
  IN  /\ n \in parents
      /\ \A k \in DOMAIN ins : reads_n(k) => ~ins[k].propagate
      /\ \A p \in parents : p = n \/ p \notin Descendants(graph, n)

\* C8: a task that reads the updated variable only through inputs with
\* propagate = false is not among the nodes update_value returns.
PropagateFalseNotRetriggered ==
  [][Updated =>
       \A t \in NodeIndexes(nodes) :
          ReadsWithoutPropagate(nodes, t, ret'.node_index) => t \notin Returned(ret'.res)]_vars

\* The scoped variables the inputs of a task resolve to, itself left out.
ResolvedInputs(task) ==
  LET ins == input_vars(task)
      resolved(k) == resolve_scope(task_scope, ins[k].var, task.scope).val
  IN  SelectSeq([k \in DOMAIN ins |-> <<resolved(k).var, resolved(k).scope>>],
                LAMBDA sv : sv # ScopedVariable(task))

TypeOK ==
  /\ status \in {"init", "ok", "err", "panic", "differ"}
  /\ status # "ok" => nodes = <<>>


\* C11: the accessors leave the graph as it is, and an accessor or
\* update_value called with an index that is not below the number of nodes
\* fails with an InternalError.
OutOfRangeIsInternalError ==
  [][/\ ret' # ret /\ ret'.op \in Accessors => nodes' = nodes
     /\ /\ ret' # ret
        /\ ret'.op \in Accessors \cup {"update_value"}
        /\ ret'.node_index >= Len(nodes)
        => ~ret'.res.ok /\ ret'.res.err = "InternalError" /\ nodes' = nodes]_vars

\* node(i) failed at the first index past the last of a graph of three nodes.
NodePastTheEnd ==
  /\ ret.op = "node" /\ ret.node_index = Len(nodes) /\ ~ret.res.ok
  /\ status = "ok" /\ Len(nodes) = 3

\* The edges the edge loop of TaskGraph::new inserts for the task list of the
\* state, or the error that ends the loop.
DependencyEdges ==
  LET tm == tasks_map(tasks)
  IN  add_edges(tm, task_scope, CHOOSE iter \in Enumerations(DOMAIN tm) : TRUE)

\* The petgraph nodes reached from the frontier over one or more edges.
RECURSIVE EdgeReach(_, _, _)
EdgeReach(edges, frontier, seen) ==
  LET next == {edges[k].target : k \in {j \in DOMAIN edges : edges[j].source \in frontier}}
                \ seen
  IN  IF next = {} THEN seen ELSE EdgeReach(edges, next, seen \cup next)

\* Some node reaches itself: the edges, none of them a self-edge, form a cycle
\* among two or more tasks.
Cyclic == DependencyEdges.ok /\ \E k \in DOMAIN DependencyEdges.val :
            LET source == DependencyEdges.val[k].source
            IN  source \in EdgeReach(DependencyEdges.val, {source}, {})

\* C12: when the dependency edges among the tasks form a cycle,
\* TaskGraph::new fails with an InternalError and returns no graph.
CycleIsInternalError ==
  status # "init" /\ Cyclic =>
    /\ status = "err"
    /\ ret.res = Err("InternalError")
    /\ nodes = <<>> /\ twin = <<>>

\* Three tasks, two of them reading each other, were handed to TaskGraph::new.
CycleRejected == status = "err" /\ Cyclic /\ Len(tasks) = 3

\* Two tasks of the list have the same variable and the same scope.
Collision ==
  \E i, j \in DOMAIN tasks : i < j /\ ScopedVariable(tasks[i]) = ScopedVariable(tasks[j])

\* C13: TaskGraph::new on a task list in which two tasks have the same
\* variable and scope fails with a SpecificationError and returns no graph.
CollisionRejected ==
  status # "init" /\ Collision =>
    /\ status = "err"
    /\ ret.res = Err("SpecificationError")
    /\ nodes = <<>>

\* The prefixes of the usage scope at which the chart defines the variable:
\* a definition of that namespace and name, or, for a signal, a dataset that
\* publishes it.
DefinedAt(variable, scope) ==
  \E i \in DOMAIN tasks :
     /\ tasks[i].scope = scope
     /\ tasks[i].variable = variable
DefiningScopes(variable, usage_scope) ==
  {S \in Prefixes(usage_scope) : DefinedAt(variable, S)}
PublishedAt(variable, scope) ==
  \E i \in DOMAIN tasks :
     /\ tasks[i].scope = scope
     /\ tasks[i].variable.namespace = "Data"
     /\ variable \in Range(output_vars(tasks[i]))
Longest(scopes) == CHOOSE S \in scopes : \A U \in scopes : Len(U) <= Len(S)

\* C14: resolve_scope returns the longest prefix of the usage scope that
\* defines the name in the requested namespace; definitions of the same name
\* in another namespace are not seen; with no defining prefix and no dataset
\* publishing the name it fails with a SpecificationError.
ResolutionLocality ==
  ret.op = "resolve_scope" =>
    LET variable == ret.value.variable
        usage_scope == ret.value.usage_scope
        defining == DefiningScopes(variable, usage_scope)
        publishing == {S \in Prefixes(usage_scope) : PublishedAt(variable, S)}
    IN  /\ defining # {} /\ (\A P \in publishing : Len(P) <= Len(Longest(defining))) =>
             ret.res = Ok(Resolved(variable, Longest(defining), <<>>))
        /\ defining = {} /\ publishing = {} => ret.res = Err("SpecificationError")

\* Data x resolved from the group, where a signal x is defined, to the root.
OuterDataResolved ==
  /\ ret.op = "resolve_scope" /\ ret.res.ok
  /\ ret.value.variable = new_data("x") /\ ret.value.usage_scope = Group
  /\ DefinedAt(new_signal("x"), Group)
  /\ ret.res.val.scope = Root

\* What the client spec of the receiver reads and what it computes, and the
\* same for the server spec, each against the scope tree it is walked with.
ClientConsumes == spec_input_vars(receiver.spec, to_task_scope(chart_spec)).val
ClientComputes == update_vars(receiver.spec)
ServerConsumes == spec_input_vars(receiver.server_spec, task_scope).val
ServerComputes == update_vars(receiver.server_spec)

\* C15: after render_vegafusion every variable the client spec reads and does
\* not compute is in server_to_client, every variable the server spec reads
\* and does not compute is in client_to_server, and every variable of either
\* set has an entry in the mapping of the server task graph: no lookup of one
\* of them in the mapping fails.
CommPlanClosure ==
  /\ ret.op = "render_vegafusion" =>
        ret.res.err \notin {"server_to_client unwrap", "client_to_server unwrap"}
  /\ status = "ok" /\ receiver # NoReceiver =>
        /\ ClientConsumes \ ClientComputes \subseteq receiver.comm_plan.server_to_client
        /\ ServerConsumes \ ServerComputes \subseteq receiver.comm_plan.client_to_server
        /\ receiver.comm_plan.server_to_client \cup receiver.comm_plan.client_to_server
              \subseteq DOMAIN receiver.task_graph_mapping

\* A plan with traffic both ways, an output signal among what the server
\* sends.
PlanBothWays ==
  /\ status = "ok" /\ ret.op = "render_vegafusion"
  /\ receiver.comm_plan.client_to_server # {}
  /\ \E sv \in receiver.comm_plan.server_to_client :
       receiver.task_graph_mapping[sv].output_index # <<>>

\* A step of a callback, and the indices of the request it sent.
CalledBack == ret'.op = "update_value" /\ <<ret, sent, nodes>>' # <<ret, sent, nodes>>
Requested == Range(sent'[1].indices)

\* The indices of the server_to_client variables, from the plan and the
\* mapping of the receiver.
ServerToClientIndices ==
  {receiver.task_graph_mapping[sv] : sv \in receiver.comm_plan.server_to_client}

\* C16: a change of a client_to_server variable applies update_value to the
\* node of that variable and sends one request, whose indices are the
\* entries update_value returned that are indices of server_to_client
\* variables, each once and in the order returned; the state fingerprint of
\* every node requested has changed.
RequestIsFilteredUpdate ==
  [][CalledBack =>
       /\ \E sv \in receiver.comm_plan.client_to_server :
            /\ receiver.task_graph_mapping[sv].node_index = ret'.node_index
            /\ ScopedVariable(nodes[ret'.node_index + 1].task) = sv
       /\ ret'.res.ok /\ Len(sent') = 1
       /\ Requested = Range(ret'.res.val) \cap ServerToClientIndices
       /\ \E pick \in SUBSET DOMAIN ret'.res.val :
            sent'[1].indices = SelectAt(ret'.res.val, pick)
       /\ Len(sent'[1].indices) = Cardinality(Requested)
       /\ \A n \in Requested :
            nodes'[n.node_index + 1].state_fingerprint
              # nodes[n.node_index + 1].state_fingerprint]_vars

\* A request for some but not all of the indices update_value returned.
RequestFiltered ==
  /\ status = "ok" /\ ret.op = "update_value" /\ ret.res.ok
  /\ sent # <<>> /\ sent[1].indices # <<>>
  /\ Len(sent[1].indices) < Len(ret.res.val)

\* C20: union gives Unknown when either argument is Unknown and otherwise
\* Known of the union of the two column sets; it is commutative, associative
\* and idempotent with Known of the empty set as identity; with_column on
\* Known(s) gives Known(s plus the column) and on Unknown gives Unknown.
UnknownIsTop ==
  LET a == columns.left
      b == columns.right
      c == columns.third
  IN  /\ columns.op = "union" =>
           columns.out = IF a = Unknown \/ b = Unknown
                           THEN Unknown
                           ELSE [kind |-> "Known", cols |-> a.cols \cup b.cols]
      /\ columns.op = "with_column" =>
           columns.out = IF a = Unknown
                           THEN Unknown
                           ELSE [kind |-> "Known", cols |-> a.cols \cup {columns.column}]
      /\ columns.op # "none" =>
           /\ union(a, b) = union(b, a)
           /\ union(union(a, b), c) = union(a, union(b, c))
           /\ union(a, a) = a
           /\ union(a, empty) = a
           /\ union(empty, a) = a

\* A union of two known usages that overlap, neither within the other, the
\* third usage Unknown.
KnownOverlapUnion ==
  /\ columns.op = "union"
  /\ columns.left.kind = "Known" /\ columns.right.kind = "Known"
  /\ columns.left.cols \cap columns.right.cols # {}
  /\ columns.left.cols \ columns.right.cols # {}
  /\ columns.right.cols \ columns.left.cols # {}
  /\ columns.third = Unknown
  /\ columns.out = [kind |-> "Known", cols |-> Columns]

\* C17: within one request the evaluator of a node is called at most once,
\* also for a node several requested indices depend on and with independent
\* branches evaluated at the same time.
EvaluatedAtMostOnce ==
  \A n \in DOMAIN request.calls : request.calls[n] <= 1

\* Two requested nodes being evaluated at the same time, both depending on a
\* node whose evaluator the request has called.
SharedAncestorInParallel ==
  /\ request.state = "running"
  /\ \E m, n \in request.in_flight :
       /\ m # n
       /\ {m, n} \subseteq {i.node_index : i \in request.indices}
       /\ \E a \in request.required \ {m, n} :
            /\ request.calls[a] = 1
            /\ a \in required(nodes, {NodeValueIndex(m, <<>>)})
            /\ a \in required(nodes, {NodeValueIndex(n, <<>>)})

\* A step that calls the evaluator of node n.
EvaluatorCalled(n) ==
  /\ request.state = "running" /\ request'.state = "running"
  /\ request'.calls[n] > request.calls[n]

\* The literal a Value task stores: the value whose serialisation the task
\* holds.
Literal(task) ==
  CHOOSE v \in TaskValues : ProtoTaskValue_try_from(v) = Ok(task.task_kind.value)

\* Argument lists a Value task may be evaluated with.
ArgumentLists == {<<>>, <<Scalar(1)>>, <<Table(1), Scalar(MaxScalar)>>}

\* C18: the evaluator of a node is called only when the source of every
\* incoming edge has produced a value, and with one argument per incoming
\* edge, in the order of incoming: the value of the edge's source, or its
\* output value at the edge's slot; a Value task evaluates to the literal it
\* stores and no output values, whatever the arguments and whatever literal
\* update_value might have stored in it.
ParentsFirstInOrder ==
  [][\A n \in DOMAIN request.calls :
       EvaluatorCalled(n) =>
         LET incoming == nodes[n + 1].incoming
             task == nodes[n + 1].task
         IN  /\ Len(request'.args[n]) = Len(incoming)
             /\ \A k \in DOMAIN incoming :
                  LET source == request.results[incoming[k].source]
                  IN  /\ source.ok
                      /\ request'.args[n][k] =
                           IF incoming[k].output = <<>> THEN source.val.value
                           ELSE source.val.output_values[incoming[k].output[1] + 1]
             /\ task.task_kind.kind = "Value" =>
                  \A values \in ArgumentLists :
                     /\ Task_eval(task, values)
                          = Ok([value |-> Literal(task), output_values |-> <<>>])
                     /\ \A v \in TaskValues \ {NoIpc} :
                          LET stored == value_task(nodes[n + 1], ProtoTaskValue_try_from(v).val)
                          IN  /\ Literal(stored) = v
                              /\ Task_eval(stored, values)
                                   = Ok([value |-> v, output_values |-> <<>>])
    ]_vars

\* The evaluator of a node with two incoming edges, one of them for an output
\* slot, has been called with two different values, and a Value node has
\* produced its literal.
CalledWithSlotValue ==
  /\ request.state = "running"
  /\ \E n \in DOMAIN request.calls :
       /\ request.calls[n] = 1
       /\ Len(request.args[n]) = 2
       /\ request.args[n][1] # request.args[n][2]
       /\ \E k \in 1..2 : nodes[n + 1].incoming[k].output # <<>>
  /\ \E n \in DOMAIN request.calls :
       /\ nodes[n + 1].task.task_kind.kind = "Value"
       /\ request.calls[n] = 1
       /\ request.results[n] = Ok([value |-> Scalar(1), output_values |-> <<>>])

\* The nodes of a request that failed, and the required nodes that depend on
\* node n.
Failed(req) == {n \in req.required : ~req.results[n].ok /\ req.results[n] # NotYet}
Dependents(req, n) ==
  {d \in req.required \ {n} : n \in required(nodes, {NodeValueIndex(d, <<>>)})}

\* C19: when the evaluation of a node fails or times out, every required
\* node that depends on it has an error when the request is answered, its
\* evaluator is not called and the response is the error; a step that gives
\* a node an error writes nothing to the cache, an entry is written only
\* for a node whose evaluation returned a value, no step removes an entry,
\* cancellation included, and a node whose state fingerprint has an entry
\* produces that entry.
FailureLeavesCache ==
  [][/\ cache \subseteq cache'
     /\ \A e \in cache' \ cache :
          \E n \in request.in_flight :
             /\ e.fingerprint = nodes[n + 1].state_fingerprint
             /\ request'.results[n] = Ok(e.produced)
     /\ request'.state = "cancelled" => cache' = cache
     /\ request.state = "running" /\ request'.state \in {"running", "done"} =>
          /\ \A n \in Failed(request) :
               /\ request'.results[n] = request.results[n]
               /\ \A d \in Dependents(request, n) :
                    request'.calls[d] = 0 /\ d \notin request'.in_flight
          /\ \A n \in Failed(request') \ Failed(request) :
               /\ cache' = cache
               /\ \/ n \in request.in_flight
                  \/ \E k \in DOMAIN nodes[n + 1].incoming :
                       /\ nodes[n + 1].incoming[k].source \in Failed(request)
                       /\ request'.results[n]
                            = request.results[nodes[n + 1].incoming[k].source]
          /\ \A n \in request.required :
               /\ request.results[n] = NotYet /\ request'.results[n].ok
               /\ cached(cache, nodes[n + 1].state_fingerprint) # {}
               => \E e \in cached(cache, nodes[n + 1].state_fingerprint) :
                     request'.results[n] = Ok(e.produced)
          /\ request'.state = "done" =>
               /\ \A n \in Failed(request') :
                    Dependents(request', n) \subseteq Failed(request')
               /\ Failed(request') # {} => ~response(nodes, request').ok
    ]_vars

\* An answered request in which a node produced its cache entry of an
\* earlier request, the evaluation of a node that depends on it timed out,
\* and a node depending on that one has the error without a call.
TimeoutAfterCacheHit ==
  /\ request.state = "done"
  /\ \E h \in request.hits, n \in Failed(request) :
       /\ request.calls[h] = 0
       /\ request.calls[n] = 1
       /\ request.results[n] = Err("Timeout")
       /\ h \in required(nodes, {NodeValueIndex(n, <<>>)})
       /\ \E d \in Dependents(request, n) :
            request.results[d] = Err("Timeout") /\ request.calls[d] = 0
       /\ cached(cache, nodes[h + 1].state_fingerprint) # {}
       /\ cached(cache, nodes[n + 1].state_fingerprint) = {}

\* C21: adding context to an error keeps its kind, its message and its
\* earlier context lines in their order and puts the new line last; after k
\* frames the stack holds the k lines, the outermost frame's line last.
ContextAppended ==
  [][failure.source = "result" /\ ~failure.result.ok /\ failure' # failure =>
       LET before == into(failure.result.err)
           after == failure'.result.err
           k == Len(before.contexts)
       IN  /\ ~failure'.result.ok
           /\ after.kind = before.kind
           /\ after.message = before.message
           /\ Len(after.contexts) = k + 1
           /\ \A i \in 1..k : after.contexts[i] = before.contexts[i]
           /\ after.contexts[k + 1] = failure'.frames[Len(failure'.frames)]
           /\ after.contexts = failure'.frames
    ]_vars

\* An error of another crate that has crossed three frames with different
\* lines.
ThreeFramesCrossed ==
  /\ failure.source = "result" /\ ~failure.result.ok
  /\ failure.frames = <<"c1", "c2", "c1">>
  /\ failure.result.err.kind = "ArrowError"
  /\ failure.result.err.contexts = <<"c1", "c2", "c1">>

\* The references the InputVars pass meets: the inputs of the definitions
\* that are not stubs and the reads of the marks.
References(spec) ==
  spec.marks \cup
  UNION {{MarkRead(input_vars(spec.defs[i].task)[k].var, spec.defs[i].task.scope) :
            k \in DOMAIN input_vars(spec.defs[i].task)} :
         i \in {j \in DOMAIN spec.defs : ~spec.defs[j].stub}}

\* C22: when the InputVars pass returns Ok, every reference it met resolves
\* and is in input_vars under the scope it resolves to, the dataset a mark
\* reads through from.data or from.facet.data included.
InputsResolved ==
  ret.op = "input_vars" /\ ret.res.ok =>
    \A r \in References(chart_spec) :
       LET resolved == resolve_scope(to_task_scope(chart_spec), r.var, r.scope)
       IN  /\ resolved.ok
           /\ <<r.var, resolved.val.scope>> \in ret.res.val

\* The state fingerprint of node i computed from the graph as it stands.
RecomputedState(graph, i) ==
  IF graph[i].task.task_kind.kind = "Value"
  THEN hash_task(graph[i].task)
  ELSE Concat([k \in DOMAIN graph[i].incoming |->
                 hash_u64(graph[graph[i].incoming[k].source + 1].state_fingerprint)])
         \o hash_u64(graph[i].id_fingerprint)

\* C23: after TaskGraph::new and after every update_value, the state
\* fingerprint stored in a node is the one computed from the graph as it
\* stands: for a Value node the hash of its task, value included, for any
\* other node the hash of the state fingerprints of its parents, in incoming
\* order, and of its own id fingerprint.
StateFingerprintsCurrent ==
  status = "ok" =>
    \A i \in DOMAIN nodes : nodes[i].state_fingerprint = RecomputedState(nodes, i)

\* An update_value that changed the fingerprints of a node with two incoming
\* edges and of its parent.
TwoParentNodeRefreshed ==
  /\ status = "ok" /\ ret.op = "update_value" /\ ret.res.ok
  /\ \E i \in DOMAIN nodes :
       /\ Len(nodes[i].incoming) = 2
       /\ NodeValueIndex(i - 1, <<>>) \in Range(ret.res.val)
       /\ NodeValueIndex(ret.node_index, <<>>) \in Range(ret.res.val)
       /\ nodes[ret.node_index + 1].task.task_kind.value.data = "Table"

\* The id fingerprint of node i computed from the graph as it stands.
RecomputedId(graph, i) ==
  LET task == graph[i].task
  IN  IF task.task_kind.kind = "Value"
      THEN hash_variable(task.variable) \o hash_scope(task.scope)
             \o hash_tag(task.task_kind.value.data)
      ELSE Concat([k \in DOMAIN graph[i].incoming |->
                     hash_u64(graph[graph[i].incoming[k].source + 1].id_fingerprint)])
             \o hash_task(task)

\* C24: in every state of a built graph, also after update_value has put a
\* table where a scalar was or a scalar where a table was, the id
\* fingerprint of a Value node is the hash of its variable, its scope and the
\* kind tag of the value it holds, and the id fingerprint of any other node
\* is the hash of the id fingerprints of its parents and of its task.
IdFingerprintsCurrent ==
  status = "ok" =>
    \A i \in DOMAIN nodes : nodes[i].id_fingerprint = RecomputedId(nodes, i)

\* The task the build keeps for each scoped variable of the list: the last.
Kept == {t \in Range(tasks) :
           \E i \in DOMAIN tasks :
              /\ tasks[i] = t
              /\ \A j \in DOMAIN tasks :
                   ScopedVariable(tasks[j]) = ScopedVariable(t) => j <= i}

\* What the k-th input of a task resolves to.
InputResolution(t, k) == resolve_scope(task_scope, input_vars(t)[k].var, t.scope)

\* The k-th input of the task resolves to the task's own scoped variable.
SelfInput(t, k) ==
  /\ InputResolution(t, k).ok
  /\ <<InputResolution(t, k).val.var, InputResolution(t, k).val.scope>> = ScopedVariable(t)

\* Every input of every kept task resolves to a kept task, and to one of its
\* output variables when it resolves to an output signal.
InputsFound ==
  \A t \in Kept : \A k \in DOMAIN input_vars(t) :
     /\ InputResolution(t, k).ok
     /\ \E u \in Kept :
          /\ ScopedVariable(u) = <<InputResolution(t, k).val.var, InputResolution(t, k).val.scope>>
          /\ InputResolution(t, k).val.output_var # <<>> =>
               InputResolution(t, k).val.output_var[1] \in Range(output_vars(u))

\* t reads u: an input of t resolves to the scoped variable of another task u.
ReadsOther(t, u) ==
  /\ ScopedVariable(t) # ScopedVariable(u)
  /\ \E k \in DOMAIN input_vars(t) :
       /\ InputResolution(t, k).ok
       /\ <<InputResolution(t, k).val.var, InputResolution(t, k).val.scope>> = ScopedVariable(u)

\* The kept tasks can be put in an order in which every task comes after the
\* other tasks it reads.
OrderedApartFromSelf ==
  \E order \in Enumerations(Kept) :
     \A i, j \in DOMAIN order : ReadsOther(order[i], order[j]) => j < i

\* C25: an input that resolves to the task's own node adds no edge: no node
\* of a built graph is among its own incoming sources or outgoing targets,
\* and a task list with such an input whose other inputs are all found and
\* put the tasks in an order is built.
SelfEdgeElided ==
  /\ status = "ok" =>
       \A i \in DOMAIN nodes :
          /\ \A k \in DOMAIN nodes[i].incoming : nodes[i].incoming[k].source # i - 1
          /\ \A k \in DOMAIN nodes[i].outgoing : nodes[i].outgoing[k].target # i - 1
  /\ ( /\ status # "init"
       /\ \E t \in Kept : \E k \in DOMAIN input_vars(t) : SelfInput(t, k)
       /\ InputsFound /\ OrderedApartFromSelf )
       => status = "ok" /\ ret.res.ok

\* A built graph of three nodes in which a node whose task reads its own
\* output signal has a parent and a child.
SelfReaderBuilt ==
  /\ status = "ok" /\ Len(nodes) = 3
  /\ \E i \in DOMAIN nodes :
       /\ \E k \in DOMAIN input_vars(nodes[i].task) : SelfInput(nodes[i].task, k)
       /\ nodes[i].incoming # <<>> /\ nodes[i].outgoing # <<>>

\* The resolutions of the inputs of a task that resolve to another task, in
\* the order of input_vars().
OtherInputs(t) ==
  SelectSeq([k \in DOMAIN input_vars(t) |-> InputResolution(t, k).val],
            LAMBDA r : <<r.var, r.scope>> # ScopedVariable(t))

\* An input of a kept task resolves to a variable no kept task defines, or to
\* an output signal the kept task of its dataset does not publish.
SlotMissing ==
  \E t \in Kept : \E k \in DOMAIN input_vars(t) :
     LET r == InputResolution(t, k).val
     IN  /\ ~SelfInput(t, k)
         /\ \/ \A u \in Kept : ScopedVariable(u) # <<r.var, r.scope>>
            \/ /\ r.output_var # <<>>
               /\ \E u \in Kept : /\ ScopedVariable(u) = <<r.var, r.scope>>
                                  /\ r.output_var[1] \notin Range(output_vars(u))

\* C27: in a built graph the incoming edge for an input that resolves to an
\* output signal o of a dataset has the node of that dataset as source and
\* the position of o in its output_vars() as output slot, and the edge for an
\* input that resolves to a definition has no slot; when all inputs resolve
\* but one resolves to a variable without a task or to an output signal its
\* dataset does not publish, the build fails with an InternalError and
\* returns no graph.
OutputSlotFound ==
  /\ status = "ok" =>
       \A i \in DOMAIN nodes :
          LET inputs == OtherInputs(nodes[i].task)
              incoming == nodes[i].incoming
          IN  Len(incoming) = Len(inputs) =>
                \A k \in DOMAIN incoming :
                   LET parent == nodes[incoming[k].source + 1].task
                       o == inputs[k].output_var
                   IN  /\ ScopedVariable(parent) = <<inputs[k].var, inputs[k].scope>>
                       /\ o = <<>> => incoming[k].output = <<>>
                       /\ o # <<>> =>
                            /\ incoming[k].output # <<>>
                            /\ incoming[k].output[1] + 1 \in DOMAIN output_vars(parent)
                            /\ output_vars(parent)[incoming[k].output[1] + 1] = o[1]
                            /\ \A q \in 1..incoming[k].output[1] : output_vars(parent)[q] # o[1]
  /\ ( /\ status # "init"
       /\ \A t \in Kept : \A k \in DOMAIN input_vars(t) : InputResolution(t, k).ok
       /\ SlotMissing )
       => /\ status = "err"
          /\ ret.res = Err("InternalError")
          /\ nodes = <<>>

\* A built node reads its parent twice: its output signal, through slot 0,
\* and the dataset itself.
SlotAndPlainEdge ==
  /\ status = "ok"
  /\ \E i \in DOMAIN nodes :
       /\ Len(nodes[i].incoming) = 2
       /\ nodes[i].incoming[1].source = nodes[i].incoming[2].source
       /\ nodes[i].incoming[1].output = <<0>>
       /\ nodes[i].incoming[2].output = <<>>

\* How often node m is a target of node n's outgoing edges, and how often
\* node n is a source of node m's incoming edges.
TimesTarget(graph, n, m) ==
  Cardinality({k \in DOMAIN graph[n + 1].outgoing : graph[n + 1].outgoing[k].target = m})

TimesSource(graph, n, m) ==
  Cardinality({k \in DOMAIN graph[m + 1].incoming : graph[m + 1].incoming[k].source = n})

\* C29: in the graph returned by TaskGraph::new and after every update_value,
\* node m is among node n's outgoing targets as often as n is among m's
\* incoming sources, and every edge ends at a node index of the graph.
EdgeListsConsistent ==
  status = "ok" =>
    /\ \A n, m \in NodeIndexes(nodes) : TimesTarget(nodes, n, m) = TimesSource(nodes, n, m)
    /\ \A n \in NodeIndexes(nodes) :
         /\ \A k \in DOMAIN nodes[n + 1].outgoing :
              nodes[n + 1].outgoing[k].target \in NodeIndexes(nodes)
         /\ \A k \in DOMAIN nodes[n + 1].incoming :
              nodes[n + 1].incoming[k].source \in NodeIndexes(nodes)

\* A value was updated in a graph where one node is twice the parent of
\* another.
DoubleEdgeAfterUpdate ==
  /\ status = "ok" /\ ret.op = "update_value" /\ ret.res.ok
  /\ \E n, m \in NodeIndexes(nodes) :
       TimesTarget(nodes, n, m) = 2 /\ TimesSource(nodes, n, m) = 2

\* The scoped variables the tasks of a graph define.
TaskVariables(graph) == {ScopedVariable(graph[i].task) : i \in DOMAIN graph}

\* C26: build_mapping maps each task's (variable, scope) to its node index
\* without slot and each output variable, at the task's scope, to the same
\* node index with its position in output_vars(); distinct definition sites
\* map to distinct values, and every node index is the image of exactly one
\* task variable.
MappingBijective ==
  status = "ok" =>
    LET mapping == build_mapping(nodes)
    IN  /\ \A i \in DOMAIN nodes :
             /\ mapping[ScopedVariable(nodes[i].task)] = NodeValueIndex(i - 1, <<>>)
             /\ \A k \in DOMAIN output_vars(nodes[i].task) :
                  mapping[<<output_vars(nodes[i].task)[k], nodes[i].task.scope>>]
                    = NodeValueIndex(i - 1, <<k - 1>>)
        /\ \A sv1, sv2 \in DOMAIN mapping : sv1 # sv2 => mapping[sv1] # mapping[sv2]
        /\ \A i \in DOMAIN nodes :
             Cardinality({sv \in TaskVariables(nodes) :
                            mapping[sv].node_index = i - 1}) = 1

\* The ops of an aggregate transform, [count] when absent.
OpsOf(spec) == IF spec.ops = <<>> THEN {"count"} ELSE Range(spec.ops[1])

\* C28: supported() is true exactly when every op, ops being [count] when
\* absent, is one of count, valid, missing, distinct, sum, mean, average, min,
\* max, variance, variancep, stdev, stdevp, cross is not true and drop is not
\* false.
SupportedExactly ==
  transform.op = "supported" =>
    ( transform.out = TRUE <=>
        /\ OpsOf(transform.spec) \subseteq
             {"count", "valid", "missing", "distinct", "sum", "mean", "average",
              "min", "max", "variance", "variancep", "stdev", "stdevp"}
        /\ transform.spec.cross # <<TRUE>>
        /\ transform.spec.drop # <<FALSE>> )

\* supported() said no to a transform where only the second op stands in
\* the way: cross is false and drop is true.
SecondOpRefused ==
  /\ transform.op = "supported"
  /\ transform.out = FALSE
  /\ transform.spec = AggregateTransformSpec(<<<<"sum", "median">>>>, <<FALSE>>, <<TRUE>>)

\* The graph after the first k updates applied by the callbacks.
RECURSIVE GraphAfter(_)
GraphAfter(k) ==
  IF k = 0 THEN callbacks.rendered
  ELSE update_value(GraphAfter(k - 1), callbacks.applied[k].node_index,
                    callbacks.applied[k].value).graph

\* C30: whatever the interleaving of the callbacks, the k-th request sent
\* carries the graph as it is after exactly the first k updates applied and
\* the indices the k-th update returned, filtered; so the requests leave in
\* the order of the updates.
RequestsFollowUpdates ==
  /\ Len(callbacks.outbox) <= Len(callbacks.applied)
  /\ \A k \in DOMAIN callbacks.outbox :
       LET upd == update_value(GraphAfter(k - 1), callbacks.applied[k].node_index,
                               callbacks.applied[k].value)
       IN  /\ callbacks.outbox[k].task_graph = upd.graph
           /\ callbacks.outbox[k].indices
                = request_indices(upd.res.val, receiver.server_to_client_value_indices)

\* The callback of one variable has updated the graph and sent its request,
\* which asks for values, and still holds the guard, while an invocation for
\* another variable that the view made earlier waits for the lock.
EarlierCallbackWaits ==
  /\ Len(callbacks.outbox) = 1
  /\ callbacks.outbox[1].indices # <<>>
  /\ callbacks.outbox[1].task_graph # callbacks.rendered
  /\ \E c, d \in DOMAIN callbacks.calls :
       /\ c < d
       /\ callbacks.calls[c].pc = "called" /\ callbacks.calls[d].pc = "sent"
       /\ callbacks.calls[c].scoped_var # callbacks.calls[d].scoped_var
====
